---- MODULE Spec2Model ----
(***************************************************************************)
(* Subscription billing glue of the Django SaaS application:               *)
(*   helpers/billing.py        the Stripe gateway helpers                   *)
(*   checkouts/views.py        checkout finalization                        *)
(*   subscriptions/views.py    subscription detail / refresh / cancel views *)
(* The local table UserSubscription, the gateway's subscriptions and the   *)
(* gateway calls made by the last handler are the state.                    *)
(***************************************************************************)
EXTENDS Integers, Sequences, FiniteSets, TLC

(***************************************************************************)
(* Bounds of the model.                                                     *)
(***************************************************************************)
\* length of the answer script the gateway holds ready for one helper call
ScriptLen == 4

\* the most query parameters a success URL carries
MaxUrlParams == 3
\* number of renewals the gateway makes on its own
MaxGatewayEvents == 1

\* the most customers the gateway creates for one user
MaxCustomersCreated == 2

\* the most rows the LoginAttempt table holds
MaxLoginAttempts == 6

\* the last minute the clock reaches
MaxClock == 20

(***************************************************************************)
(* Values.                                                                  *)
(***************************************************************************)
\* Python None / SQL NULL
NULL == "None"

Users == {"u1", "u2"}

\* Customer.stripe_id of each user's customer profile
CustomerStripeId == [u \in Users |-> IF u = "u1" THEN "cus_1" ELSE "cus_2"]

\* catalog plans (Subscription rows)
Plans == {"basic", "pro"}

\* Subscription rows joined to SubscriptionPrice rows by SubscriptionPrice.stripe_id
PlansOfPrice(price) ==
    CASE price = "price_basic" -> {"basic"}
      [] price = "price_pro" -> {"pro"}
      [] price = "price_dup" -> {"basic", "pro"}
      [] OTHER -> {}

\* subscriptions that exist at the gateway
SubIds == {"sub_a", "sub_b", "sub_c", "sub_d", "sub_e", "sub_x"}

\* the customer a gateway subscription belongs to
SubCustomer(sub) ==
    CASE sub = "sub_x" -> "cus_x"
      [] sub = "sub_e" -> "cus_2"
      [] OTHER -> "cus_1"

\* price id of the first item of a gateway subscription (NULL: no item)
SubPrice(sub) ==
    CASE sub = "sub_a" -> "price_basic"
      [] sub = "sub_b" -> "price_pro"
      [] sub = "sub_c" -> NULL
      [] sub = "sub_d" -> "price_dup"
      [] OTHER -> "price_pro"

\* checkout sessions that exist at the gateway: customer and subscription
SessionIds == {"cs_a", "cs_b", "cs_c", "cs_d", "cs_x", "cs_nosub", "cs_nocust"}

SessionCustomer(sid) ==
    CASE sid = "cs_x" -> "cus_x"
      [] sid = "cs_nocust" -> NULL
      [] OTHER -> "cus_1"

SessionSubscription(sid) ==
    CASE sid = "cs_a" -> "sub_a"
      [] sid = "cs_b" -> "sub_b"
      [] sid = "cs_c" -> "sub_c"
      [] sid = "cs_d" -> "sub_d"
      [] sid = "cs_x" -> "sub_x"
      [] sid = "cs_nocust" -> "sub_a"
      [] OTHER -> NULL

\* values of the session_id query parameter: absent, unknown to the gateway, known
RequestSessionIds == {"", "cs_unknown"} \cup SessionIds

\* subscription statuses the gateway reports
GatewayStatuses == {"active", "trialing", "past_due", "canceled"}

\* values of the cancel_type form field ("" stands for: not posted)
CancelTypes == {"", "immediate", "end_of_period", "tomorrow"}

\* one answer of the gateway to one HTTP attempt
Outcomes == {"ok", "transient", "client_error"}

\* the answers the gateway holds ready for the attempts of one helper call;
\* what follows a final answer (ok, 4xx) is never looked at, so it repeats
Scripts ==
    {s \in [1..ScriptLen -> Outcomes] :
        \A i \in 1..(ScriptLen - 1) : s[i] # "transient" => s[i + 1] = s[i]}

\* the scripts of a gateway that answers every attempt of a call alike
SteadyScripts == {s \in Scripts : \A i \in 1..ScriptLen : s[i] = s[1]}

\* the scripts for the n calls of one handler run; the calls after a call that
\* fails are the same as that call (a handler that stops there makes none)
HandlerScripts(n) ==
    {ss \in [1..n -> SteadyScripts] :
        \A i \in 1..(n - 1) : ss[i][1] # "ok" => ss[i + 1] = ss[i]}

\* the users who complete checkouts where the rows are followed one at a time
Subscribers == {"u1"}

\* the checkouts a user can have completed: a subscription of the user's own
\* gateway customer, for the one plan its price belongs to
OwnCheckouts(u) ==
    {c \in [plan : Plans, sub : SubIds] :
        /\ SubCustomer(c.sub) = CustomerStripeId[u]
        /\ PlansOfPrice(SubPrice(c.sub)) = {c.plan}}

VARIABLES
    userSub,    \* UserSubscription table: the row of each user that has one
    remote,     \* the gateway's subscriptions: id -> snapshot
    gwEvents,   \* number of changes the gateway made on its own
    last,       \* the last handler run: what it was given and what it did
    pc,         \* concurrent requests: the statement each one is at
    loc,        \* concurrent requests: the local variables of each one
    customers,  \* Customer table: the row of each user
    delivered,  \* the ids of the webhook events delivered so far
    emailVerified,  \* User.email_verified of each user
    profiles,   \* Customer table: stripe_id and init_email_confirmed of the
                \* row of each user that has one
    gwCreated,  \* the number of customers the gateway created for each user
    session,    \* request.session of each user: the price selected
    onSale,     \* the prices of the catalog whose plan is active
    loginAttempts,  \* LoginAttempt table: how many rows of each kind
    now         \* timezone.now(), in minutes

vars == <<userSub, remote, gwEvents, last, pc, loc, customers, delivered, emailVerified, profiles, gwCreated, session, onSale, loginAttempts, now>>

\* the variables of the requests that run concurrently
concVars == <<pc, loc>>

\* the variables of the customers app
custVars == <<customers, delivered>>

\* the variables of sign-up and checkout start
acctVars == <<emailVerified, profiles, gwCreated, session, onSale>>

\* the variables of the login view
authVars == <<loginAttempts, now>>


(***************************************************************************)
(* Rows and snapshots.                                                      *)
(***************************************************************************)
\* the row UserSubscription.objects.get_or_create(user=...) inserts
DefaultUserSubscription ==
    [subscription |-> NULL, stripe_id |-> NULL, status |-> "none",
     current_period_start |-> NULL, current_period_end |-> NULL,
     cancel_at_period_end |-> FALSE, user_cancelled |-> FALSE]

\* the fields of a Customer row at their defaults (the gateway id of the
\* customer of a user is CustomerStripeId)
DefaultCustomer == [subscription_status |-> "none", lifetime_value |-> 0]

\* UserSubscription.is_active_status
is_active_status(row) == row.status \in {"active", "trialing"}

\* update_or_create in the place of get_or_create: the row is reset to defaults
get_or_create_resetting(table, u, defaults) ==
    [row |-> defaults, created |-> u \notin DOMAIN table]

\* UserSubscription.objects.get_or_create(user=u, defaults=defaults): (row, created)
get_or_create(table, u, defaults) ==
    IF u \in DOMAIN table
    THEN [row |-> table[u], created |-> FALSE]
    ELSE [row |-> defaults, created |-> TRUE]

\* row.save(): the table with the row of u inserted or replaced
save(table, u, row) ==
    [x \in DOMAIN table \cup {u} |-> IF x = u THEN row ELSE table[x]]

\* the four fields the helpers copy from a gateway subscription
serialize_subscription_data(subscription_response) ==
    [current_period_start |-> subscription_response.current_period_start,
     current_period_end |-> subscription_response.current_period_end,
     status |-> subscription_response.status,
     cancel_at_period_end |-> subscription_response.cancel_at_period_end]

\* the copy also flips user_cancelled, whatever the data hold
setattrs_toggling(row, data) ==
    [f \in DOMAIN row |->
        IF f \in DOMAIN data THEN data[f]
        ELSE IF f = "user_cancelled" THEN ~row[f] ELSE row[f]]

\* for k, v in data.items(): setattr(row, k, v)
setattrs(row, data) ==
    [f \in DOMAIN row |-> IF f \in DOMAIN data THEN data[f] ELSE row[f]]


(***************************************************************************)
(* helpers/billing.py: one call of the stripe library per helper call.      *)
(***************************************************************************)
\* a retry loop around the library call: repeat while the answer is transient
stripe_request_retrying(answers) ==
    LET final == {i \in 1..Len(answers) : answers[i] # "transient"}
        n == IF final = {} THEN Len(answers)
             ELSE CHOOSE i \in final : \A j \in final : i <= j
    IN  [attempts |-> n, result |-> answers[n]]

\* the helpers call stripe.X.create/retrieve/modify/cancel once and let its
\* exception propagate: one attempt, whose answer is the result
stripe_request(answers) ==
    [attempts |-> 1, result |-> answers[1]]

\* the gateway answers 4xx for an object it does not know, whatever else
GatewayAnswers(known, script) ==
    IF known THEN script ELSE [i \in 1..ScriptLen |-> "client_error"]

\* the record kept of one helper call
GatewayCall(api, target, known, script) ==
    LET r == stripe_request(GatewayAnswers(known, script))
    IN  [api |-> api, target |-> target,
         answers |-> GatewayAnswers(known, script), attempts |-> r.attempts,
         result |-> r.result, raised |-> r.result # "ok"]

\* get_checkout_session(stripe_id, raw=True)
get_checkout_session(stripe_id, script) ==
    GatewayCall("checkout.Session.retrieve", stripe_id, stripe_id \in SessionIds, script)

\* get_subscription(stripe_id, raw=True)
get_subscription(stripe_id, script) ==
    GatewayCall("Subscription.retrieve", stripe_id, stripe_id \in SubIds, script)

\* customers that exist at the gateway
GatewayCustomers == {"cus_1", "cus_2", "cus_x"}

\* a URL is the sequence of its pieces: the part before the query, then
\* "?" or "&" before each query parameter
UrlBase == "https://host/checkout/success/"

\* the query parameter that carries the gateway's session-id placeholder
SessionIdParam == "session_id={CHECKOUT_SESSION_ID}"

UrlParams == {SessionIdParam, "next=1"}

\* the URL with the query parameters params
UrlOf(params) ==
    <<UrlBase>> \o [i \in 1..(2 * Len(params)) |->
                      IF i % 2 = 0 THEN params[i \div 2]
                      ELSE IF i = 1 THEN "?" ELSE "&"]

\* the success URLs a caller passes: the placeholder is given at most once
SuccessUrls ==
    {UrlOf(params) : params \in
        {ps \in UNION {[1..n -> UrlParams] : n \in 0..MaxUrlParams} :
            Cardinality({i \in DOMAIN ps : ps[i] = SessionIdParam}) <= 1}}

\* str.endswith
endswith(s, suffix) ==
    /\ Len(suffix) <= Len(s)
    /\ SubSeq(s, Len(s) - Len(suffix) + 1, Len(s)) = suffix

\* "?session_id={CHECKOUT_SESSION_ID}"
SessionIdSuffix == <<"?", SessionIdParam>>

\* start_checkout_session: the success_url it sends to the gateway
session_success_url(success_url) ==
    IF ~endswith(success_url, SessionIdSuffix)
    THEN success_url \o SessionIdSuffix
    ELSE success_url

\* create_customer(name, email, metadata)
create_customer(script) ==
    GatewayCall("Customer.create", NULL, TRUE, script)

\* start_checkout_session(customer_id, success_url, cancel_url, price_stripe_id)
start_checkout_session(customer_id, script) ==
    GatewayCall("checkout.Session.create", customer_id,
                customer_id \in GatewayCustomers, script)

\* get_customer_active_subscriptions(customer_stripe_id)
get_customer_active_subscriptions(customer_stripe_id, script) ==
    GatewayCall("Subscription.list", customer_stripe_id,
                customer_stripe_id \in GatewayCustomers, script)

\* the branch of cancel_subscription: modify(cancel_at_period_end=True) or cancel
cancel_subscription_api(cancel_at_period_end) ==
    IF cancel_at_period_end THEN "Subscription.modify" ELSE "Subscription.cancel"

\* cancel_subscription(stripe_id, cancel_at_period_end=...): the call it makes
cancel_subscription(stripe_id, cancel_at_period_end, script) ==
    GatewayCall(cancel_subscription_api(cancel_at_period_end), stripe_id,
                stripe_id \in SubIds, script)

\* what a successful call does to the gateway's subscriptions
GatewayApply(gw, call) ==
    IF call.raised THEN gw
    ELSE CASE call.api = "Subscription.cancel" ->
                [gw EXCEPT ![call.target].status = "canceled"]
           [] call.api = "Subscription.modify" ->
                [gw EXCEPT ![call.target].cancel_at_period_end = TRUE]
           [] OTHER -> gw

\* get_checkout_customer_plan(session_id): the calls made, and the exception
\* raised, None returned, or the dictionary returned
get_checkout_customer_plan(gw, session_id, s1, s2) ==
    LET checkout_r == get_checkout_session(session_id, s1)
        customer_id == SessionCustomer(session_id)
        sub_stripe_id == SessionSubscription(session_id)
        sub_r == get_subscription(sub_stripe_id, s2)
    IN  IF checkout_r.raised
        THEN [kind |-> "raise", calls |-> <<checkout_r>>, data |-> NULL]
        ELSE IF sub_stripe_id = NULL
        THEN [kind |-> "none", calls |-> <<checkout_r>>, data |-> NULL]
        ELSE IF sub_r.raised
        THEN [kind |-> "raise", calls |-> <<checkout_r, sub_r>>, data |-> NULL]
        ELSE [kind |-> "data", calls |-> <<checkout_r, sub_r>>,
              data |-> [customer_id |-> customer_id,
                        plan_id |-> SubPrice(sub_stripe_id),
                        sub_stripe_id |-> sub_stripe_id,
                        subscription_data |->
                            serialize_subscription_data(gw[sub_stripe_id])]]


(***************************************************************************)
(* checkouts/views.py: checkout finalization.                               *)
(***************************************************************************)
\* updated_sub_options without the "stripe_id" key
updated_sub_options_unbound(subscription_obj, sub_stripe_id, subscription_data) ==
    [subscription |-> subscription_obj,
     user_cancelled |-> FALSE,
     current_period_start |-> subscription_data.current_period_start,
     current_period_end |-> subscription_data.current_period_end,
     status |-> subscription_data.status,
     cancel_at_period_end |-> subscription_data.cancel_at_period_end]

\* updated_sub_options with the status the site announces ("is now active")
\* instead of the one carried in subscription_data
updated_sub_options_assumed(subscription_obj, sub_stripe_id, subscription_data) ==
    [subscription |-> subscription_obj,
     stripe_id |-> sub_stripe_id,
     user_cancelled |-> FALSE,
     current_period_start |-> subscription_data.current_period_start,
     current_period_end |-> subscription_data.current_period_end,
     status |-> "active",
     cancel_at_period_end |-> subscription_data.cancel_at_period_end]

\* updated_sub_options = {subscription, stripe_id, user_cancelled, **subscription_data}
updated_sub_options(subscription_obj, sub_stripe_id, subscription_data) ==
    [subscription |-> subscription_obj,
     stripe_id |-> sub_stripe_id,
     user_cancelled |-> FALSE,
     current_period_start |-> subscription_data.current_period_start,
     current_period_end |-> subscription_data.current_period_end,
     status |-> subscription_data.status,
     cancel_at_period_end |-> subscription_data.cancel_at_period_end]

\* the old subscription is cancelled whenever the row existed
cancels_old_always(user_sub_created, old_stripe_id, sub_stripe_id) ==
    ~user_sub_created /\ old_stripe_id # NULL

\* if not user_sub_created: if old_stripe_id and not same_stripe_id
cancels_old(user_sub_created, old_stripe_id, sub_stripe_id) ==
    ~user_sub_created /\ old_stripe_id # NULL /\ sub_stripe_id # old_stripe_id

\* a failed cancellation of the old subscription ends the update
abort_on_cancellation_failure(cancelling, cancel) ==
    ~(cancelling /\ cancel.raised)

\* except Exception as e: logger.warning(...)  "Continue despite cancellation
\* failure": the update goes on whatever the cancellation did
continue_despite_cancellation_failure(cancelling, cancel) == TRUE

\* process_user_subscription_update: the table and the gateway it leaves, the
\* calls it made and the response it returns
process_user_subscription_update(table, gw, user_obj, subscription_obj, sub_stripe_id, subscription_data, script) ==
    LET options == updated_sub_options(subscription_obj, sub_stripe_id,
                                       subscription_data)
        goc == get_or_create(table, user_obj,
                             setattrs(DefaultUserSubscription, options))
        old_stripe_id == goc.row.stripe_id
        cancel == cancel_subscription(old_stripe_id, FALSE, script)
        cancelling == cancels_old(goc.created, old_stripe_id, sub_stripe_id)
        continues == continue_despite_cancellation_failure(cancelling, cancel)
        row == IF goc.created \/ ~continues THEN goc.row
               ELSE setattrs(goc.row, options)
    IN  [table |-> save(table, user_obj, row),
         gw |-> IF cancelling THEN GatewayApply(gw, cancel) ELSE gw,
         calls |-> IF cancelling THEN <<cancel>> ELSE <<>>,
         outcome |-> IF continues THEN "success" ELSE "error"]

\* a lookup that falls back to the first user when no customer matches
get_user_or_first(customer_id) ==
    LET found == {u \in Users : CustomerStripeId[u] = customer_id}
    IN  [raised |-> NULL,
         user |-> IF found = {} THEN "u1" ELSE CHOOSE u \in found : TRUE]

\* User.objects.get(customer__stripe_id=customer_id).  The relation from User
\* to Customer is named customer_profile (Customer.user related_name), so the
\* lookup name customer is no field of User: the query raises FieldError for
\* every customer_id, before any row is looked at.
get_user_by_customer_stripe_id(customer_id) ==
    [raised |-> "FieldError", user |-> NULL]

\* Subscription.objects.get(subscriptionprice__stripe_id=plan_id)
get_subscription_obj(plan_id) ==
    LET found == PlansOfPrice(plan_id)
    IN  IF found = {} THEN [raised |-> "DoesNotExist", plan |-> NULL]
        ELSE IF Cardinality(found) > 1
        THEN [raised |-> "MultipleObjectsReturned", plan |-> NULL]
        ELSE [raised |-> NULL, plan |-> CHOOSE pl \in found : TRUE]

\* checkout_finalize_view up to the call of process_user_subscription_update:
\* the calls made and either the error response or the arguments of that call
checkout_finalize_resolve(gw, session_id, s1, s2) ==
    LET checkout == get_checkout_customer_plan(gw, session_id, s1, s2)
        data == checkout.data
        plan == get_subscription_obj(data.plan_id)
        user == get_user_by_customer_stripe_id(data.customer_id)
        error(calls) == [kind |-> "error", calls |-> calls, args |-> NULL]
    IN  IF session_id = "" THEN error(<<>>)
        ELSE IF checkout.kind # "data" THEN error(checkout.calls)
        ELSE IF data.plan_id = NULL \/ data.customer_id = NULL
                \/ data.sub_stripe_id = NULL
        THEN error(checkout.calls)
        ELSE IF plan.raised # NULL THEN error(checkout.calls)
        ELSE IF user.raised # NULL THEN error(checkout.calls)
        ELSE [kind |-> "process", calls |-> checkout.calls,
              args |-> [user_obj |-> user.user, subscription_obj |-> plan.plan,
                        sub_stripe_id |-> data.sub_stripe_id,
                        subscription_data |-> data.subscription_data]]

\* what the last handler run was given and did
Ran(op, user, input, outcome, calls) ==
    [op |-> op, user |-> user, input |-> input, outcome |-> outcome,
     calls |-> calls]

\* checkout_finalize_view(request) with ?session_id=session_id
checkout_finalize_view(session_id, s1, s2, s3) ==
    LET r == checkout_finalize_resolve(remote, session_id, s1, s2)
        a == r.args
        done == process_user_subscription_update(userSub, remote, a.user_obj,
                    a.subscription_obj, a.sub_stripe_id, a.subscription_data, s3)
    IN  IF r.kind = "error"
        THEN /\ last' = Ran("checkout_finalize_view", NULL, session_id,
                            "error", r.calls)
             /\ UNCHANGED <<authVars, userSub, remote, gwEvents, concVars, custVars, acctVars>>
        ELSE /\ userSub' = done.table
             /\ remote' = done.gw
             /\ last' = Ran("checkout_finalize_view", a.user_obj, session_id,
                            done.outcome, r.calls \o done.calls)
             /\ UNCHANGED <<authVars, gwEvents, concVars, custVars, acctVars>>

\* process_user_subscription_update(user_obj, subscription_obj, sub_stripe_id,
\* subscription_data, request), called with the arguments its caller validates
ProcessUserSubscriptionUpdate(user_obj, subscription_obj, sub_stripe_id, subscription_data, script) ==
    LET done == process_user_subscription_update(userSub, remote, user_obj,
                    subscription_obj, sub_stripe_id, subscription_data, script)
    IN  /\ userSub' = done.table
        /\ remote' = done.gw
        /\ last' = Ran("process_user_subscription_update", user_obj,
                       [subscription_obj |-> subscription_obj,
                        sub_stripe_id |-> sub_stripe_id,
                        subscription_data |-> subscription_data],
                       done.outcome, done.calls)
        /\ UNCHANGED <<authVars, gwEvents, concVars, custVars, acctVars>>


\* the price ids a session can hold under checkout_subscription_price_id:
\* none, two prices on sale, a price without gateway id, a price not on sale
SelectedPrices == {NULL, "price_basic", "price_pro", "price_nostripe", "price_gone"}

\* SubscriptionPrice.objects.get(id=..., subscription__active=True)
PricesOnSale == {"price_basic", "price_pro", "price_nostripe"}

\* price_obj.stripe_id
price_stripe_id(price_id) ==
    IF price_id = "price_nostripe" THEN NULL ELSE price_id

\* def start_checkout_session(customer_id, success_url, cancel_url,
\*                            price_stripe_id, raw)
StartCheckoutSessionParameters ==
    {"customer_id", "success_url", "cancel_url", "price_stripe_id", "raw"}

\* the arguments checkout_redirect_view passes, by position and by keyword
CheckoutRedirectArguments ==
    {"customer_id", "success_url", "cancel_url", "price_stripe_id",
     "billing_cycle_anchor", "raw"}

\* a Python call raises TypeError for a keyword the function does not declare
raises_type_error(arguments, parameters) == ~(arguments \subseteq parameters)

(***************************************************************************)
(* customers/models.py, dashboard/views.py and checkouts/views.py: the      *)
(* Customer row of a user and the customer the gateway holds for it.        *)
(***************************************************************************)
\* @login_required: the user has logged in through login_view, which lets in
\* only a user whose email_verified is set
is_authenticated(verified, u) == verified[u]

\* the ids the gateway gives to the customers it creates for a user, in order
GatewayCustomerIds ==
    [u \in Users |->
        IF u = "u1" THEN <<"cus_1", "cus_1b", "cus_1c", "cus_1d">>
        ELSE <<"cus_2", "cus_2b", "cus_2c", "cus_2d">>]

\* a Customer row as Customer(user=u, init_email=user.email,
\* init_email_confirmed=confirmed, stripe_id=stripe_id) builds it
NewCustomer(stripe_id, confirmed) ==
    [stripe_id |-> stripe_id, init_email_confirmed |-> confirmed]

\* Customer.should_create_stripe_customer: every user is active and has an
\* email, so it is init_email_confirmed that decides
should_create_stripe_customer(row) == row.init_email_confirmed

\* Customer.create_stripe_customer() on one instance: the instance it leaves
\* in memory, the gateway call it made, the exception it raised.  The
\* metadata hold self.created_at.isoformat(): created_at (auto_now_add) is
\* None until the row has been inserted, so on an instance not yet inserted
\* the method raises AttributeError before it calls the gateway.
create_stripe_customer(u, row, inserted, n, script) ==
    LET call == create_customer(script)
    IN  IF row.stripe_id # NULL
        THEN [row |-> row, calls |-> <<>>, raised |-> NULL]
        ELSE IF ~inserted
        THEN [row |-> row, calls |-> <<>>, raised |-> "AttributeError"]
        ELSE IF call.raised
        THEN [row |-> row, calls |-> <<call>>, raised |-> "StripeError"]
        ELSE [row |-> [row EXCEPT !.stripe_id = GatewayCustomerIds[u][n + 1]],
              calls |-> <<call>>, raised |-> NULL]

\* Customer.save(): the row it writes and the gateway call it made; what
\* create_stripe_customer raises is logged and the row is saved all the same
customer_save(u, row, inserted, n, script) ==
    LET made == create_stripe_customer(u, row, inserted, n, script)
    IN  IF row.stripe_id = NULL /\ should_create_stripe_customer(row)
        THEN [row |-> made.row, calls |-> made.calls]
        ELSE [row |-> row, calls |-> <<>>]

\* Customer.objects.get_or_create(user=u, defaults=defaults): a row that is
\* missing is built from the defaults and saved by Customer.save()
customer_get_or_create(table, u, defaults, n, script) ==
    LET saved == customer_save(u, defaults, FALSE, n, script)
    IN  IF u \in DOMAIN table
        THEN [row |-> table[u], created |-> FALSE, calls |-> <<>>]
        ELSE [row |-> saved.row, created |-> TRUE, calls |-> saved.calls]

\* the gateway customers a handler run created
CustomersCreated(calls) ==
    Cardinality({i \in DOMAIN calls :
        calls[i].api = "Customer.create" /\ ~calls[i].raised})

\* get_customer_or_create(user): the table it leaves, the customer object it
\* returns (create_stripe_customer sets stripe_id on the object and nothing
\* saves it afterwards), the calls made and the exception that escapes
get_customer_or_create(table, verified, u, n, script) ==
    LET goc == customer_get_or_create(table, u, NewCustomer(NULL, verified[u]),
                                      n, script)
        made == create_stripe_customer(u, goc.row, TRUE,
                                       n + CustomersCreated(goc.calls), script)
    IN  [table |-> save(table, u, goc.row),
         customer |-> made.row,
         created |-> goc.created,
         calls |-> goc.calls \o made.calls,
         raised |-> made.raised]

\* del request.session["checkout_subscription_price_id"] and
\* del request.session["checkout_price_info"]: the switch is kept
keep_checkout_keys(s, u) == s

\* del request.session["checkout_subscription_price_id"] and
\* del request.session["checkout_price_info"]
del_checkout_keys(s, u) == [s EXCEPT ![u] = NULL]

\* what checkout_redirect_view leaves when it redirects to the pricing page
redirect_pricing(message, calls, table, sess) ==
    [calls |-> calls, outcome |-> "redirect_pricing", message |-> message,
     table |-> table, session |-> sess]

\* checkout_redirect_view(request) from the customer on: got is what
\* get_customer_or_create returned or raised
checkout_redirect_start(got, sess, script) ==
    LET call == start_checkout_session(got.customer.stripe_id, script)
    IN  IF got.raised # NULL
        THEN redirect_pricing("unexpected_error", got.calls, got.table, sess)
        ELSE IF got.customer.stripe_id = NULL
        THEN redirect_pricing("customer_profile_incomplete", got.calls,
                              got.table, sess)
        ELSE IF raises_type_error(CheckoutRedirectArguments,
                                  StartCheckoutSessionParameters)
        THEN redirect_pricing("unable_to_start_checkout", got.calls,
                              got.table, sess)
        ELSE IF call.raised
        THEN redirect_pricing("unable_to_start_checkout",
                              got.calls \o <<call>>, got.table, sess)
        ELSE [calls |-> got.calls \o <<call>>,
              outcome |-> "redirect_checkout_url", message |-> NULL,
              table |-> got.table, session |-> sess]

\* checkout_redirect_view(request): the calls it makes, where it redirects,
\* the message it flashes, and the Customer table and the session it leaves
checkout_redirect(table, verified, sess, catalog, u, n, script) ==
    IF sess[u] = NULL
    THEN redirect_pricing("no_plan_selected", <<>>, table, sess)
    ELSE IF sess[u] \notin catalog
    THEN redirect_pricing("plan_no_longer_available", <<>>, table,
                          del_checkout_keys(sess, u))
    ELSE IF price_stripe_id(sess[u]) = NULL
    THEN redirect_pricing("pricing_configuration_error", <<>>, table, sess)
    ELSE checkout_redirect_start(
            get_customer_or_create(table, verified, u, n, script), sess, script)

checkout_redirect_view(u, script) ==
    LET done == checkout_redirect(profiles, emailVerified, session, onSale, u,
                                  gwCreated[u], script)
    IN  /\ is_authenticated(emailVerified, u)
        /\ gwCreated[u] < MaxCustomersCreated
        /\ profiles' = done.table
        /\ session' = done.session
        /\ gwCreated' = [gwCreated EXCEPT ![u] = @ + CustomersCreated(done.calls)]
        /\ last' = Ran("checkout_redirect_view", u,
                       [price_id |-> session[u], gateway |-> script[1],
                        stripe_id |-> IF u \in DOMAIN profiles
                                      THEN profiles[u].stripe_id ELSE NULL,
                        message |-> done.message],
                       done.outcome, done.calls)
        /\ UNCHANGED <<authVars, userSub, remote, gwEvents, concVars, custVars,
                       emailVerified, onSale>>

\* product_price_redirect_view(request, price_id): a price on sale is stored
\* in the session, any other is refused
product_price_redirect_view(u, price_id) ==
    /\ session' = IF price_id \in onSale THEN [session EXCEPT ![u] = price_id]
                  ELSE session
    /\ last' = Ran("product_price_redirect_view", u, price_id,
                   IF price_id \in onSale THEN "redirect_checkout_start"
                   ELSE "redirect_pricing", <<>>)
    /\ UNCHANGED <<authVars, userSub, remote, gwEvents, concVars, custVars,
                   emailVerified, profiles, gwCreated, onSale>>

\* the catalog's owner deactivates the plan of a price, or deletes the price
DeactivatePlan(price_id) ==
    /\ price_id \in onSale
    /\ onSale' = onSale \ {price_id}
    /\ last' = Ran("deactivate_plan", NULL, price_id, "done", <<>>)
    /\ UNCHANGED <<authVars, userSub, remote, gwEvents, concVars, custVars,
                   emailVerified, profiles, gwCreated, session>>

\* CustomerManager.create_for_user(user, **extra_fields) passes these keywords
\* to self.create() itself, before **extra_fields
CreateForUserKeywords == {"user", "init_email", "init_email_confirmed"}

\* the extra fields allauth_user_signed_up_handler gives to create_for_user
SignedUpExtraFields == {"init_email", "init_email_confirmed", "subscription_status"}

\* f(k=..., **extra) with k in extra: TypeError, got multiple values for
\* keyword argument
raises_duplicate_keyword(keywords, extra_fields) ==
    keywords \cap extra_fields # {}

\* allauth_user_signed_up_handler(request, user): create_for_user raises
\* TypeError, which the handler logs; no row is created
allauth_user_signed_up_handler(u) ==
    LET fails == raises_duplicate_keyword(CreateForUserKeywords,
                                          SignedUpExtraFields)
    IN  /\ u \notin DOMAIN profiles
        /\ profiles' = IF fails THEN profiles
                       ELSE save(profiles, u, NewCustomer(NULL, FALSE))
        /\ last' = Ran("allauth_user_signed_up_handler", u, NULL,
                       IF fails THEN "logged_error" ELSE "created", <<>>)
        /\ UNCHANGED <<authVars, userSub, remote, gwEvents, concVars, custVars,
                       emailVerified, gwCreated, session, onSale>>

\* register_view(request), POST: the Customer row of the new user is created
\* with init_email_confirmed False; with ENABLE_EMAIL_VERIFICATION the user is
\* sent to the login page
register_view(u) ==
    LET goc == customer_get_or_create(profiles, u, NewCustomer(NULL, FALSE),
                    gwCreated[u], [i \in 1..ScriptLen |-> "ok"])
    IN  /\ u \notin DOMAIN profiles
        /\ ~emailVerified[u]
        /\ profiles' = save(profiles, u, goc.row)
        /\ last' = Ran("register_view", u, NULL, "redirect_login", goc.calls)
        /\ UNCHANGED <<authVars, userSub, remote, gwEvents, concVars, custVars,
                       emailVerified, gwCreated, session, onSale>>

\* CustomUserAdmin.verify_email(request, queryset): queryset.update sets
\* email_verified and sends no signal
verify_email(u) ==
    /\ ~emailVerified[u]
    /\ emailVerified' = [emailVerified EXCEPT ![u] = TRUE]
    /\ last' = Ran("verify_email", u, NULL, "done", <<>>)
    /\ UNCHANGED <<authVars, userSub, remote, gwEvents, concVars, custVars,
                   profiles, gwCreated, session, onSale>>

\* dashboard_view(request): Customer.objects.get_or_create with
\* init_email_confirmed taken from user.email_verified
dashboard_view(u) ==
    LET goc == customer_get_or_create(profiles, u,
                    NewCustomer(NULL, emailVerified[u]), gwCreated[u],
                    [i \in 1..ScriptLen |-> "ok"])
    IN  /\ is_authenticated(emailVerified, u)
        /\ profiles' = save(profiles, u, goc.row)
        /\ gwCreated' = [gwCreated EXCEPT ![u] = @ + CustomersCreated(goc.calls)]
        /\ last' = Ran("dashboard_view", u, NULL,
                       IF goc.created THEN "created" ELSE "rendered", goc.calls)
        /\ UNCHANGED <<authVars, userSub, remote, gwEvents, concVars, custVars,
                       emailVerified, session, onSale>>

\* allauth_email_confirmed_handler(request, email_address): the unconfirmed
\* rows with this email are confirmed, the user is marked verified, and
\* customer.save() creates the gateway customer
allauth_email_confirmed_handler(u, script) ==
    LET row == [profiles[u] EXCEPT !.init_email_confirmed = TRUE]
        saved == customer_save(u, row, TRUE, gwCreated[u], script)
        found == u \in DOMAIN profiles /\ ~profiles[u].init_email_confirmed
    IN  /\ gwCreated[u] < MaxCustomersCreated
        /\ profiles' = IF found THEN [profiles EXCEPT ![u] = saved.row]
                       ELSE profiles
        /\ emailVerified' = IF found THEN [emailVerified EXCEPT ![u] = TRUE]
                            ELSE emailVerified
        /\ gwCreated' = IF found
                        THEN [gwCreated EXCEPT
                                ![u] = @ + CustomersCreated(saved.calls)]
                        ELSE gwCreated
        /\ last' = Ran("allauth_email_confirmed_handler", u, NULL,
                       IF found THEN "confirmed" ELSE "no_customer",
                       IF found THEN saved.calls ELSE <<>>)
        /\ UNCHANGED <<authVars, userSub, remote, gwEvents, concVars, custVars,
                       session, onSale>>

\* customer.save() on the row of a user, as the admin or a view calls it
SaveCustomer(u, script) ==
    LET saved == customer_save(u, profiles[u], TRUE, gwCreated[u], script)
    IN  /\ u \in DOMAIN profiles
        /\ gwCreated[u] < MaxCustomersCreated
        /\ profiles' = [profiles EXCEPT ![u] = saved.row]
        /\ gwCreated' = [gwCreated EXCEPT ![u] = @ + CustomersCreated(saved.calls)]
        /\ last' = Ran("Customer.save", u, NULL, "saved", saved.calls)
        /\ UNCHANGED <<authVars, userSub, remote, gwEvents, concVars, custVars,
                       emailVerified, session, onSale>>

\* request.POST.get("action") of dashboard_quick_action
QuickActions == {"create_stripe_customer", "export_data"}

\* dashboard_quick_action(request), POST: create_stripe_customer calls
\* customer.create_stripe_customer() when the row has no stripe_id, and does
\* not save the row
dashboard_quick_action(u, action, script) ==
    LET made == create_stripe_customer(u, profiles[u], TRUE, gwCreated[u], script)
        creates == /\ action = "create_stripe_customer"
                   /\ u \in DOMAIN profiles
                   /\ profiles[u].stripe_id = NULL
    IN  /\ is_authenticated(emailVerified, u)
        /\ gwCreated[u] < MaxCustomersCreated
        /\ gwCreated' = IF creates
                        THEN [gwCreated EXCEPT
                                ![u] = @ + CustomersCreated(made.calls)]
                        ELSE gwCreated
        /\ last' = Ran("dashboard_quick_action", u, action,
                       CASE action # "create_stripe_customer" -> "unknown_action"
                         [] u \notin DOMAIN profiles -> "profile_not_found"
                         [] ~creates -> "already_exists"
                         [] made.raised # NULL -> "failed"
                         [] OTHER -> "created",
                       IF creates THEN made.calls ELSE <<>>)
        /\ UNCHANGED <<authVars, userSub, remote, gwEvents, concVars, custVars,
                       emailVerified, profiles, session, onSale>>

\* the stripe_customer_id argument of create_customer_from_checkout
CheckoutCustomerIds == {NULL, "cus_checkout"}

\* the row gets the id of the checkout whether or not it has one
adopts_checkout_customer_always(created, stripe_customer_id, row) ==
    ~created /\ stripe_customer_id # NULL

\* if not created and stripe_customer_id and not customer.stripe_id
adopts_checkout_customer(created, stripe_customer_id, row) ==
    ~created /\ stripe_customer_id # NULL /\ row.stripe_id = NULL

\* create_customer_from_checkout(user, stripe_customer_id)
create_customer_from_checkout(u, stripe_customer_id, script) ==
    LET goc == customer_get_or_create(profiles, u,
                    NewCustomer(stripe_customer_id, TRUE), gwCreated[u], script)
        adopted == [goc.row EXCEPT !.stripe_id = stripe_customer_id]
        adopts == adopts_checkout_customer(goc.created, stripe_customer_id,
                                           goc.row)
        saved == customer_save(u, adopted, TRUE, gwCreated[u], script)
    IN  /\ gwCreated[u] < MaxCustomersCreated
        /\ profiles' = save(profiles, u, IF adopts THEN saved.row ELSE goc.row)
        /\ customers' = IF goc.created /\ stripe_customer_id = NULL
                        THEN [customers EXCEPT ![u].subscription_status = "trial"]
                        ELSE customers
        /\ gwCreated' = [gwCreated EXCEPT
                            ![u] = @ + CustomersCreated(goc.calls)
                                     + (IF adopts THEN CustomersCreated(saved.calls)
                                        ELSE 0)]
        /\ last' = Ran("create_customer_from_checkout", u, stripe_customer_id,
                       IF goc.created THEN "created" ELSE "updated",
                       goc.calls \o (IF adopts THEN saved.calls ELSE <<>>))
        /\ UNCHANGED <<authVars, userSub, remote, gwEvents, concVars, delivered,
                       emailVerified, session, onSale>>

\* the accounts the other handlers meet: every user verified, with a
\* confirmed Customer row that holds its gateway id, and nothing selected
EstablishedAccounts ==
    /\ emailVerified = [u \in Users |-> TRUE]
    /\ profiles = [u \in Users |-> NewCustomer(CustomerStripeId[u], TRUE)]
    /\ gwCreated = [u \in Users |-> 1]
    /\ session = [u \in Users |-> NULL]
    /\ onSale = PricesOnSale

\* checkout_status_api(request): reads the row, creates none
checkout_status_api(u) ==
    /\ last' = Ran("checkout_status_api", u, NULL,
                   IF u \in DOMAIN userSub THEN "has_subscription"
                   ELSE "no_subscription", <<>>)
    /\ UNCHANGED <<authVars, userSub, remote, gwEvents, concVars, custVars, acctVars>>

(***************************************************************************)
(* subscriptions/views.py.                                                  *)
(***************************************************************************)
\* reconcile(userId) of the reconciliation engine, which
\* refresh_active_users_subscriptions(user_ids=[u], active_only=False) runs for
\* the one user: the row it leaves, the call it made and its outcome
reconcile(row, gw, script) ==
    LET call == get_subscription(row.stripe_id, script)
        snapshot == serialize_subscription_data(gw[row.stripe_id])
    IN  IF row.stripe_id = NULL
        THEN [row |-> row, calls |-> <<>>, outcome |-> "unchanged"]
        ELSE IF call.result = "client_error"
        THEN [row |-> [row EXCEPT !.stripe_id = NULL, !.status = "canceled",
                                  !.user_cancelled = FALSE],
              calls |-> <<call>>, outcome |-> "orphan_cancelled"]
        ELSE IF call.raised
        THEN [row |-> row, calls |-> <<call>>, outcome |-> "error"]
        ELSE [row |-> setattrs(row, snapshot), calls |-> <<call>>,
              outcome |-> IF setattrs(row, snapshot) = row THEN "unchanged"
                          ELSE "updated"]

\* user_subscription_view(request), GET: creates the row lazily and renders it
user_subscription_view_get(u) ==
    LET goc == get_or_create(userSub, u, DefaultUserSubscription)
    IN  /\ userSub' = save(userSub, u, goc.row)
        /\ last' = Ran("user_subscription_view", u, "GET",
                       IF goc.created THEN "created" ELSE "rendered", <<>>)
        /\ UNCHANGED <<authVars, remote, gwEvents, concVars, custVars, acctVars>>

\* user_subscription_view(request), POST with action=refresh
user_subscription_view_refresh(u, script) ==
    LET goc == get_or_create(userSub, u, DefaultUserSubscription)
        r == reconcile(goc.row, remote, script)
    IN  /\ userSub' = save(userSub, u, r.row)
        /\ last' = Ran("user_subscription_view", u, "refresh", r.outcome, r.calls)
        /\ UNCHANGED <<authVars, remote, gwEvents, concVars, custVars, acctVars>>

\* cancel_immediately = cancel_type != "end_of_period"
cancel_immediately_unless_deferred(cancel_type) == cancel_type # "end_of_period"

\* cancel_immediately = cancel_type == "immediate"
cancel_immediately(cancel_type) == cancel_type = "immediate"

\* request.POST.get("cancel_type", "end_of_period")
posted_cancel_type(cancel_type) ==
    IF cancel_type = "" THEN "end_of_period" ELSE cancel_type

\* user_subscription_cancel_view(request), GET: creates the row lazily
user_subscription_cancel_view_get(u) ==
    LET goc == get_or_create(userSub, u, DefaultUserSubscription)
    IN  /\ userSub' = save(userSub, u, goc.row)
        /\ last' = Ran("user_subscription_cancel_view", u, "GET",
                       IF goc.created THEN "created" ELSE "rendered", <<>>)
        /\ UNCHANGED <<authVars, remote, gwEvents, concVars, custVars, acctVars>>

\* the view marks the row cancelled before it hears from the gateway, and
\* keeps the mark when the call fails
cancel_view_post_optimistic(table, gw, u, cancel_type, script) ==
    LET goc == get_or_create(table, u, DefaultUserSubscription)
        user_sub_obj == goc.row
        cancel_at_period_end == ~cancel_immediately(posted_cancel_type(cancel_type))
        call == cancel_subscription(user_sub_obj.stripe_id, cancel_at_period_end,
                                    script)
        after == GatewayApply(gw, call)
        sub_data == serialize_subscription_data(after[user_sub_obj.stripe_id])
        marked == [user_sub_obj EXCEPT !.user_cancelled = TRUE]
    IN  IF user_sub_obj.stripe_id # NULL /\ is_active_status(user_sub_obj)
        THEN [table |-> save(table, u, IF call.raised THEN marked
                                       ELSE setattrs(marked, sub_data)),
              gw |-> after,
              calls |-> <<call>>,
              outcome |-> IF call.raised THEN "error" ELSE "cancelled"]
        ELSE [table |-> save(table, u, user_sub_obj),
              gw |-> gw,
              calls |-> <<>>,
              outcome |-> "no_active_subscription"]

\* user_subscription_cancel_view(request), POST with the form field
\* cancel_type: the table and the gateway it leaves, the call it made and the
\* message it flashes
cancel_view_post(table, gw, u, cancel_type, script) ==
    LET goc == get_or_create(table, u, DefaultUserSubscription)
        user_sub_obj == goc.row
        cancel_at_period_end == ~cancel_immediately(posted_cancel_type(cancel_type))
        call == cancel_subscription(user_sub_obj.stripe_id, cancel_at_period_end,
                                    script)
        after == GatewayApply(gw, call)
        sub_data == serialize_subscription_data(after[user_sub_obj.stripe_id])
    IN  IF user_sub_obj.stripe_id # NULL /\ is_active_status(user_sub_obj)
        THEN [table |-> save(table, u, IF call.raised THEN user_sub_obj
                                       ELSE setattrs(user_sub_obj, sub_data)),
              gw |-> after,
              calls |-> <<call>>,
              outcome |-> IF call.raised THEN "error" ELSE "cancelled"]
        ELSE [table |-> save(table, u, user_sub_obj),
              gw |-> gw,
              calls |-> <<>>,
              outcome |-> "no_active_subscription"]

user_subscription_cancel_view(u, cancel_type, script) ==
    LET done == cancel_view_post(userSub, remote, u, cancel_type, script)
    IN  /\ userSub' = done.table
        /\ remote' = done.gw
        /\ last' = Ran("user_subscription_cancel_view", u, cancel_type,
                       done.outcome, done.calls)
        /\ UNCHANGED <<authVars, gwEvents, concVars, custVars, acctVars>>

(***************************************************************************)
(* subscriptions/management/commands/sync_user_subs.py and the two          *)
(* functions of subscriptions/utils.py it calls.                            *)
(***************************************************************************)
\* the values given to --day-start, --day-end, --days-left, --days-ago
\* (0 is the default of each)
FlagValues == {0, 1}

\* the day on which the command runs, as current_period_end counts the days:
\* the day the first period of a subscription ends
Days == {1}

\* options.get(name, 0) or -1
or_minus_one(value) == IF value = 0 THEN -1 ELSE value

\* the rows a batch selects: active_only keeps the rows with a remote id, and
\* each date filter that is positive keeps the rows whose current_period_end
\* it matches
selected_by_filters(row, kwargs, today) ==
    /\ kwargs.active_only => row.stripe_id # NULL
    /\ kwargs.days_left > 0 =>
            /\ row.current_period_end \in Int
            /\ today <= row.current_period_end
            /\ row.current_period_end <= today + kwargs.days_left
    /\ kwargs.days_ago > 0 =>
            /\ row.current_period_end \in Int
            /\ row.current_period_end = today - kwargs.days_ago
    /\ (kwargs.day_start > 0 /\ kwargs.day_end > 0) =>
            /\ row.current_period_end \in Int
            /\ today + kwargs.day_start <= row.current_period_end
            /\ row.current_period_end <= today + kwargs.day_end

\* the batch lets the first gateway failure of a user escape: it raises and no
\* row is written
refresh_aborting_on_failure(table, gw, kwargs, today, scripts, load_fails) ==
    LET selected == {u \in DOMAIN table :
                        selected_by_filters(table[u], kwargs, today)}
        result == [u \in selected |-> reconcile(table[u], gw, scripts[u])]
    IN  IF load_fails \/ \E u \in selected : result[u].outcome = "error"
        THEN [table |-> table, gw |-> gw, raised |-> TRUE, done |-> FALSE,
              results |-> <<>>]
        ELSE [table |-> [u \in DOMAIN table |->
                            IF u \in selected THEN result[u].row ELSE table[u]],
              gw |-> gw, raised |-> FALSE, done |-> TRUE,
              results |-> [u \in selected |-> result[u].outcome]]

\* refresh_active_users_subscriptions(active_only, days_left, days_ago,
\* day_start, day_end): every selected user is reconciled on its own; it
\* raises only when the candidates cannot be loaded, and returns whether no
\* user ended in error
refresh_active_users_subscriptions(table, gw, kwargs, today, scripts, load_fails) ==
    LET selected == {u \in DOMAIN table :
                        selected_by_filters(table[u], kwargs, today)}
        result == [u \in selected |-> reconcile(table[u], gw, scripts[u])]
    IN  IF load_fails
        THEN [table |-> table, gw |-> gw, raised |-> TRUE, done |-> FALSE,
              results |-> <<>>]
        ELSE [table |-> [u \in DOMAIN table |->
                            IF u \in selected THEN result[u].row ELSE table[u]],
              gw |-> gw, raised |-> FALSE,
              done |-> \A u \in selected : result[u].outcome # "error",
              results |-> [u \in selected |-> result[u].outcome]]

\* clear_dangling_subs(): the active subscriptions the gateway lists for the
\* local customers that no row references are cancelled at once; a gateway
\* failure for any customer raises
clear_dangling_subs(table, gw, scripts) ==
    LET referenced == {table[u].stripe_id : u \in DOMAIN table}
        dangling == {sub \in SubIds :
                        /\ \E u \in Users : SubCustomer(sub) = CustomerStripeId[u]
                        /\ gw[sub].status = "active"
                        /\ sub \notin referenced}
    IN  IF \E u \in Users : scripts[u][1] # "ok"
        THEN [table |-> table, gw |-> gw, raised |-> TRUE, cancelled |-> {}]
        ELSE [table |-> table,
              gw |-> [sub \in SubIds |->
                        IF sub \in dangling
                        THEN [gw[sub] EXCEPT !.status = "canceled"]
                        ELSE gw[sub]],
              raised |-> FALSE, cancelled |-> dangling]

\* Command.handle: the keyword arguments it passes to the batch
sync_kwargs(options) ==
    [active_only |-> TRUE,
     days_left |-> or_minus_one(options.days_left),
     days_ago |-> or_minus_one(options.days_ago),
     day_start |-> or_minus_one(options.day_start),
     day_end |-> or_minus_one(options.day_end)]

\* the sweep runs whenever a date filter is given, too
runs_sweep_with_filters(options) ==
    options.clear_dangling
        \/ options.days_left > 0 \/ options.days_ago > 0

\* if clear_dangling: ... else: ...
runs_sweep(options) == options.clear_dangling

\* a batch that returns False ends the command with an error
exit_of_batch_strict(batch) ==
    IF batch.raised \/ ~batch.done THEN "exit_nonzero" ELSE "exit_0_success"

\* if done: SUCCESS else: WARNING; except Exception: ... raise
exit_of_batch(batch) ==
    IF batch.raised THEN "exit_nonzero"
    ELSE IF batch.done THEN "exit_0_success" ELSE "exit_0_warning"

\* python manage.py sync_user_subs [--clear-dangling] [--days-left=N]
\* [--days-ago=N] [--day-start=N --day-end=N]
\* on a day, with the answers the gateway gives for each user's objects
sync_user_subs(options, today, scripts, load_fails) ==
    LET sweep == clear_dangling_subs(userSub, remote, scripts)
        kwargs == sync_kwargs(options)
        batch == refresh_active_users_subscriptions(userSub, remote, kwargs,
                    today, scripts, load_fails)
    IN  IF runs_sweep(options)
        THEN /\ userSub' = sweep.table
             /\ remote' = sweep.gw
             /\ last' = Ran("sync_user_subs", NULL, options,
                            IF sweep.raised THEN "exit_nonzero"
                            ELSE "exit_0_success",
                            <<[api |-> "clear_dangling_subs", kwargs |-> NULL,
                               raised |-> sweep.raised, done |-> ~sweep.raised,
                               today |-> today, scripts |-> scripts,
                               loaded |-> TRUE, results |-> <<>>]>>)
             /\ UNCHANGED <<authVars, gwEvents, concVars, custVars, acctVars>>
        ELSE /\ userSub' = batch.table
             /\ remote' = batch.gw
             /\ last' = Ran("sync_user_subs", NULL, options, exit_of_batch(batch),
                            <<[api |-> "refresh_active_users_subscriptions",
                               kwargs |-> kwargs, raised |-> batch.raised,
                               done |-> batch.done,
                               today |-> today, scripts |-> scripts,
                               loaded |-> ~load_fails,
                               results |-> batch.results]>>)
             /\ UNCHANGED <<authVars, gwEvents, concVars, custVars, acctVars>>

(***************************************************************************)
(* customers/models.py and customers/views.py: the customer's own           *)
(* subscription status and lifetime value.                                  *)
(***************************************************************************)
\* Customer.subscription_status choices
CustomerStatuses == {"none", "trial", "active", "past_due", "canceled", "paused"}

\* the status a subscription webhook payload carries (None: no status)
WebhookStatuses == {NULL, "active", "trialing", "past_due", "canceled", "paused"}

\* the gateway customers named by webhook events: cus_x has no local Customer
WebhookCustomers == {"cus_1", "cus_x"}

\* the invoice events of the gateway: id -> customer and amount_paid in cents
InvoiceEventIds == {"evt_inv_1", "evt_inv_2", "evt_inv_0", "evt_inv_x"}

InvoiceEvent(id) ==
    [id |-> id, type |-> "invoice.paid",
     customer |-> IF id = "evt_inv_x" THEN "cus_x" ELSE "cus_1",
     status |-> "paid",
     amount_paid |-> CASE id = "evt_inv_0" -> 0
                       [] id = "evt_inv_2" -> 1200
                       [] OTHER -> 500]

\* the subscription events of the gateway
SubscriptionEvents ==
    {[id |-> "evt_sub", type |-> "customer.subscription.updated",
      customer |-> c, status |-> s, amount_paid |-> 0] :
        c \in WebhookCustomers, s \in WebhookStatuses}

\* an event of a type the handler ignores
OtherEvent ==
    [id |-> "evt_other", type |-> "charge.succeeded", customer |-> "cus_1",
     status |-> "succeeded", amount_paid |-> 0]

\* event_type.startswith("customer.subscription.") / startswith("invoice.")
event_family(event) ==
    CASE event.type = "customer.subscription.updated" -> "customer.subscription."
      [] event.type = "invoice.paid" -> "invoice."
      [] OTHER -> "other"

\* Customer.objects.get(stripe_id=customer_id): the users it finds
customers_of_stripe_id(customer_id) ==
    {u \in Users : CustomerStripeId[u] = customer_id}

\* Customer.update_subscription_status(status): the status is stored as given
update_subscription_status(table, u, status) ==
    [table EXCEPT ![u].subscription_status = status]

\* customer.lifetime_value += amount_paid, where lifetime_value is the Decimal
\* of a DecimalField and amount_paid = data.get("amount_paid", 0) / 100 is a
\* float: Decimal and float do not add, the statement raises TypeError
add_amount_paid(lifetime_value, amount_paid) ==
    [raised |-> "TypeError", value |-> lifetime_value]

\* handle_subscription_webhook(stripe_event): the table it leaves and whether
\* it returns True
handle_subscription_webhook(table, event) ==
    LET found == customers_of_stripe_id(event.customer)
        u == CHOOSE x \in found : TRUE
        sum == add_amount_paid(table[u].lifetime_value, event.amount_paid)
    IN  CASE event_family(event) = "customer.subscription." ->
                IF event.customer # NULL /\ event.status # NULL /\ found # {}
                THEN [table |-> update_subscription_status(table, u, event.status),
                      handled |-> TRUE]
                ELSE [table |-> table, handled |-> FALSE]
          [] event_family(event) = "invoice." ->
                IF event.customer # NULL /\ event.amount_paid > 0 /\ found # {}
                THEN IF sum.raised # NULL
                     THEN [table |-> table, handled |-> FALSE]
                     ELSE [table |-> [table EXCEPT ![u].lifetime_value = sum.value],
                           handled |-> TRUE]
                ELSE [table |-> table, handled |-> FALSE]
          [] OTHER -> [table |-> table, handled |-> FALSE]

\* webhook_stripe(request): @csrf_protect answers 403 to a POST without a
\* valid CSRF token before the view runs; otherwise the event is handled
webhook_stripe(event, csrf_token_valid) ==
    LET done == handle_subscription_webhook(customers, event)
    IN  /\ customers' = IF csrf_token_valid THEN done.table ELSE customers
        /\ delivered' = IF event_family(event) = "invoice."
                        THEN delivered \cup {event.id} ELSE delivered
        /\ last' = Ran("webhook_stripe", NULL,
                       [event |-> event, csrf_token_valid |-> csrf_token_valid,
                        lifetime_value_before |->
                            [u \in Users |-> customers[u].lifetime_value],
                        delivered_before |-> event.id \in delivered],
                       IF ~csrf_token_valid THEN "forbidden_403"
                       ELSE IF done.handled THEN "success" ELSE "ignored", <<>>)
        /\ UNCHANGED <<authVars, userSub, remote, gwEvents, concVars, acctVars>>

\* request.POST.get("action") of subscription_management
ManagementActions ==
    {"cancel_subscription", "pause_subscription", "resume_subscription",
     "change_plan", ""}

\* handle_subscription_cancellation / _pause / _resume: the status each sets
status_set_by(action) ==
    CASE action = "cancel_subscription" -> "canceled"
      [] action = "pause_subscription" -> "paused"
      [] action = "resume_subscription" -> "active"
      [] OTHER -> NULL

\* subscription_management(request), POST
subscription_management(u, action) ==
    /\ customers' = IF status_set_by(action) # NULL
                    THEN update_subscription_status(customers, u,
                                                    status_set_by(action))
                    ELSE customers
    /\ last' = Ran("subscription_management", u, action,
                   IF action = "" THEN "rendered" ELSE "redirect_subscription",
                   <<>>)
    /\ UNCHANGED <<authVars, userSub, remote, gwEvents, concVars, delivered, acctVars>>

\* Customer.has_active_subscription
has_active_subscription(customer) ==
    customer.subscription_status \in {"trial", "active"}

\* delete_customer_account(request), POST with the form field confirmation
delete_customer_account(u, confirmation) ==
    /\ customers' = IF confirmation = "DELETE"
                        /\ has_active_subscription(customers[u])
                    THEN update_subscription_status(customers, u, "canceled")
                    ELSE customers
    /\ last' = Ran("delete_customer_account", u, confirmation,
                   IF confirmation = "DELETE" THEN "redirect_home"
                   ELSE "redirect_profile", <<>>)
    /\ UNCHANGED <<authVars, userSub, remote, gwEvents, concVars, delivered, acctVars>>

(***************************************************************************)
(* The gateway on its own.                                                  *)
(***************************************************************************)
\* the snapshot every gateway subscription starts with
InitialSnapshot(sub) ==
    [status |-> IF sub = "sub_b" THEN "trialing" ELSE "active",
     current_period_start |-> 0, current_period_end |-> 1,
     cancel_at_period_end |-> FALSE]

\* the gateway renews a subscription some local row is bound to
GatewayEvent(sub) ==
    /\ gwEvents < MaxGatewayEvents
    /\ \E u \in DOMAIN userSub : userSub[u].stripe_id = sub
    /\ remote[sub].status # "canceled"
    /\ remote' = [remote EXCEPT
            ![sub].current_period_start = @ + 1,
            ![sub].current_period_end = @ + 1,
            ![sub].status = "active"]
    /\ gwEvents' = gwEvents + 1
    /\ last' = Ran("gateway_event", NULL, sub, "done", <<>>)
    /\ UNCHANGED <<authVars, userSub, concVars, custVars, acctVars>>

\* the subscription data a checkout can carry: the gateway's snapshot of the
\* subscription now, or the one it held when the subscription was created
CheckoutData(sub) ==
    {serialize_subscription_data(remote[sub]),
     serialize_subscription_data(InitialSnapshot(sub))}

(***************************************************************************)
(* auth/views.py: login_view and the LoginAttempt table.                    *)
(***************************************************************************)
\* _is_ip_blocked(ip_address, max_attempts=5, window_minutes=15)
max_attempts == 5

window_minutes == 15

\* the addresses get_client_ip gives
IPs == {"ip_a", "ip_b"}

\* the values timezone.now() takes
Times == {0, MaxClock}

\* what a login POST carries: nothing, an email that is no email, a wrong
\* password, the password of a user who may log in, of a disabled user, of a
\* user whose email is not verified
Credentials ==
    {"missing", "malformed_email", "wrong_password", "valid", "disabled",
     "unverified"}

\* a LoginAttempt row: the columns the rate limit reads
LoginAttemptRows == [ip_address : IPs, success : BOOLEAN, attempted_at : Times]

\* LoginAttempt.objects.count()
CountAttempts(table) ==
    Cardinality({p \in LoginAttemptRows \X (1..(MaxLoginAttempts + 1)) :
                    p[2] <= table[p[1]]})

\* LoginAttempt.objects.filter(ip_address=ip_address, success=False,
\*                             attempted_at__gte=since).count()
failed_attempts(table, ip_address, since) ==
    Cardinality({p \in LoginAttemptRows \X (1..(MaxLoginAttempts + 1)) :
                    /\ p[2] <= table[p[1]]
                    /\ p[1].ip_address = ip_address
                    /\ ~p[1].success
                    /\ p[1].attempted_at >= since})

\* the address is blocked only above max_attempts failures
is_ip_blocked_above(table, ip_address, at) ==
    failed_attempts(table, ip_address, at - window_minutes) > max_attempts

\* _is_ip_blocked(ip_address)
is_ip_blocked(table, ip_address, at) ==
    failed_attempts(table, ip_address, at - window_minutes) >= max_attempts

\* _log_login_attempt(email, success, ip_address, user_agent, failure_reason):
\* LoginAttempt.objects.create(..., attempted_at=timezone.now())
log_login_attempt(table, success, ip_address, at) ==
    LET row == [ip_address |-> ip_address, success |-> success,
                attempted_at |-> at]
    IN  [table EXCEPT ![row] = @ + 1]

\* login_view(request), POST: the failure reason it logs, or "success"
login_result(table, ip_address, credentials, at) ==
    CASE credentials = "missing" -> "missing_credentials"
      [] credentials = "malformed_email" -> "invalid_email_format"
      [] is_ip_blocked(table, ip_address, at) -> "too_many_attempts"
      [] credentials = "wrong_password" -> "invalid_credentials"
      [] credentials = "disabled" -> "account_disabled"
      [] credentials = "unverified" -> "email_not_verified"
      [] OTHER -> "success"

\* the calls of authenticate(request, username=email, password=password)
authenticate_calls(result) ==
    IF result \in {"missing_credentials", "invalid_email_format",
                   "too_many_attempts"}
    THEN <<>>
    ELSE <<[api |-> "authenticate"]>>

\* login_view(request), POST, from address ip_address
login_view(ip_address, credentials) ==
    LET result == login_result(loginAttempts, ip_address, credentials, now)
    IN  /\ CountAttempts(loginAttempts) < MaxLoginAttempts
        /\ loginAttempts' = log_login_attempt(loginAttempts, result = "success",
                                              ip_address, now)
        /\ last' = Ran("login_view", NULL,
                       [ip_address |-> ip_address, credentials |-> credentials],
                       result, authenticate_calls(result))
        /\ UNCHANGED <<userSub, remote, gwEvents, concVars, custVars, acctVars,
                       now>>

\* time passes: more minutes than the window is long
Tick ==
    /\ now < MaxClock
    /\ now' = MaxClock
    /\ last' = Ran("tick", NULL, NULL, "done", <<>>)
    /\ UNCHANGED <<userSub, remote, gwEvents, concVars, custVars, acctVars,
                   loginAttempts>>

\* no login has been attempted
NoLoginAttempts ==
    /\ loginAttempts = [row \in LoginAttemptRows |-> 0]
    /\ now = 0

(***************************************************************************)
(* The system.                                                              *)
(***************************************************************************)
\* the requests that run concurrently
Requests == {"r1", "r2"}

\* the local variables of a request that has not started
IdleLocals ==
    [op |-> NULL, plan |-> NULL, sub |-> NULL, data |-> NULL,
     cancel_type |-> NULL, script |-> NULL, row |-> NULL, created |-> FALSE,
     cancelling |-> FALSE, calls |-> <<>>, sub_data |-> NULL, outcome |-> NULL]

Init ==
    /\ userSub = <<>>
    /\ remote = [sub \in SubIds |-> InitialSnapshot(sub)]
    /\ gwEvents = 0
    /\ last = Ran("init", NULL, NULL, "done", <<>>)
    /\ pc = [r \in Requests |-> "idle"]
    /\ loc = [r \in Requests |-> IdleLocals]
    /\ customers = [u \in Users |-> DefaultCustomer]
    /\ delivered = {}
    /\ EstablishedAccounts
    /\ NoLoginAttempts

\* checkout finalization, and the lazy creation of the row
NextCheckout ==
    \/ \E sid \in RequestSessionIds, ss \in HandlerScripts(3) :
            checkout_finalize_view(sid, ss[1], ss[2], ss[3])
    \/ \E u \in Subscribers, script \in SteadyScripts :
          \E c \in OwnCheckouts(u) : \E data \in CheckoutData(c.sub) :
            ProcessUserSubscriptionUpdate(u, c.plan, c.sub, data, script)
    \/ \E u \in Users : user_subscription_view_get(u)

\* the handlers that create, bind and cancel the row
NextViews ==
    \/ \E u \in Subscribers, script \in SteadyScripts :
          \E c \in OwnCheckouts(u) : \E data \in CheckoutData(c.sub) :
            ProcessUserSubscriptionUpdate(u, c.plan, c.sub, data, script)
    \/ \E u \in Users : checkout_status_api(u)
    \/ \E u \in Users : user_subscription_view_get(u)
    \/ \E u \in Users : user_subscription_cancel_view_get(u)
    \/ \E u \in Users, cancel_type \in CancelTypes, script \in SteadyScripts :
            user_subscription_cancel_view(u, cancel_type, script)

\* every handler that reads or writes the row, and the gateway's renewals
NextRows ==
    \/ NextViews
    \/ \E u \in Users, script \in SteadyScripts :
            user_subscription_view_refresh(u, script)
    \/ \E sub \in SubIds : GatewayEvent(sub)

Next ==
    \/ NextRows
    \/ \E sid \in RequestSessionIds, ss \in HandlerScripts(3) :
            checkout_finalize_view(sid, ss[1], ss[2], ss[3])

SpecCheckout == Init /\ [][NextCheckout]_vars

SpecViews == Init /\ [][NextViews]_vars

SpecRows == Init /\ [][NextRows]_vars

Spec == Init /\ [][Next]_vars


\* the options of one invocation of the command
CommandOptions ==
    [day_start : FlagValues, day_end : FlagValues, days_left : FlagValues,
     days_ago : FlagValues, clear_dangling : BOOLEAN]

\* what the batch meets: a gateway that answers alike to every call about
\* the objects of one user, or a database that cannot load the candidates (no
\* gateway call is made then)
BatchEnvs ==
    {e \in [scripts : [Users -> SteadyScripts], load_fails : BOOLEAN] :
        e.load_fails => \A u \in Users : e.scripts[u][1] = "ok"}

\* what the command meets: a gateway that answers alike to every call
CommandEnvs ==
    {e \in BatchEnvs : \A u, v \in Users : e.scripts[u] = e.scripts[v]}

\* the command, between checkouts
NextCommand ==
    \/ \E options \in CommandOptions, today \in Days, env \in CommandEnvs :
            sync_user_subs(options, today, env.scripts, env.load_fails)
    \/ \E u \in Subscribers, script \in SteadyScripts :
          \E c \in OwnCheckouts(u) : \E data \in CheckoutData(c.sub) :
            ProcessUserSubscriptionUpdate(u, c.plan, c.sub, data, script)

SpecCommand == Init /\ [][NextCommand]_vars

\* the invocations whose date filters are --days-left and --days-ago
BatchOptions ==
    {o \in CommandOptions : o.day_start = 0 /\ o.day_end = 0}

\* the command over the rows of several subscribers, each with its own
\* gateway answers
NextBatch ==
    \/ \E options \in BatchOptions, today \in Days, env \in BatchEnvs :
            sync_user_subs(options, today, env.scripts, env.load_fails)
    \/ \E u \in Users, script \in SteadyScripts :
          \E c \in OwnCheckouts(u) : \E data \in CheckoutData(c.sub) :
            ProcessUserSubscriptionUpdate(u, c.plan, c.sub, data, script)

SpecBatch == Init /\ [][NextBatch]_vars

\* every webhook delivery, with and without a CSRF token
NextWebhooks ==
    \E event \in SubscriptionEvents \cup {OtherEvent}
                    \cup {InvoiceEvent(id) : id \in InvoiceEventIds},
       csrf_token_valid \in BOOLEAN :
        webhook_stripe(event, csrf_token_valid)

SpecWebhooks == Init /\ [][NextWebhooks]_vars

\* the customer's actions, the subscription webhooks, and checkouts
NextCustomers ==
    \/ \E u \in Users, action \in ManagementActions :
            subscription_management(u, action)
    \/ \E u \in Users, confirmation \in {"DELETE", ""} :
            delete_customer_account(u, confirmation)
    \/ \E event \in SubscriptionEvents, csrf_token_valid \in BOOLEAN :
            webhook_stripe(event, csrf_token_valid)
    \/ \E u \in Subscribers, script \in SteadyScripts :
          \E c \in OwnCheckouts(u) :
            ProcessUserSubscriptionUpdate(u, c.plan, c.sub,
                serialize_subscription_data(remote[c.sub]), script)

SpecCustomers == Init /\ [][NextCustomers]_vars

\* the prices the catalog's owner withdraws
WithdrawnPrices == {"price_gone"}

\* users who are about to sign up: no Customer row, email not verified
InitAccounts ==
    /\ userSub = <<>>
    /\ remote = [sub \in SubIds |-> InitialSnapshot(sub)]
    /\ gwEvents = 0
    /\ last = Ran("init", NULL, NULL, "done", <<>>)
    /\ pc = [r \in Requests |-> "idle"]
    /\ loc = [r \in Requests |-> IdleLocals]
    /\ customers = [u \in Users |-> DefaultCustomer]
    /\ delivered = {}
    /\ emailVerified = [u \in Users |-> FALSE]
    /\ profiles = <<>>
    /\ gwCreated = [u \in Users |-> 0]
    /\ session = [u \in Users |-> NULL]
    /\ onSale = PricesOnSale \cup WithdrawnPrices
    /\ NoLoginAttempts

\* sign-up, email confirmation, the dashboard and the start of a checkout
NextAccounts ==
    \/ \E u \in Subscribers : allauth_user_signed_up_handler(u)
    \/ \E u \in Subscribers : register_view(u)
    \/ \E u \in Subscribers : verify_email(u)
    \/ \E u \in Subscribers : dashboard_view(u)
    \/ \E u \in Subscribers, script \in SteadyScripts :
            allauth_email_confirmed_handler(u, script)
    \/ \E u \in Subscribers, script \in SteadyScripts : SaveCustomer(u, script)
    \/ \E u \in Subscribers, action \in QuickActions, script \in SteadyScripts :
            dashboard_quick_action(u, action, script)
    \/ \E u \in Subscribers, id \in CheckoutCustomerIds, script \in SteadyScripts :
            create_customer_from_checkout(u, id, script)
    \/ \E u \in Subscribers, price_id \in SelectedPrices \ {NULL} :
            product_price_redirect_view(u, price_id)
    \/ \E u \in Subscribers, script \in SteadyScripts :
            checkout_redirect_view(u, script)
    \/ \E price_id \in WithdrawnPrices : DeactivatePlan(price_id)

SpecAccounts == InitAccounts /\ [][NextAccounts]_vars

\* login POSTs from the addresses, and the clock
NextLogins ==
    \/ \E ip_address \in IPs, credentials \in Credentials :
            login_view(ip_address, credentials)
    \/ Tick

SpecLogins == Init /\ [][NextLogins]_vars

(***************************************************************************)
(* The gateway helpers called on their own, with every script of answers.   *)
(***************************************************************************)
\* the subscription ids handed to the helpers: two known ones and an unknown one
HelperSubIds == {"sub_a", "sub_b", "sub_unknown"}

\* what a caller of a helper of helpers/billing.py observes
HelperRan(name, call) ==
    Ran(name, NULL, call.target, IF call.raised THEN "raised" ELSE "returned",
        <<call>>)

CreateCustomer(script) ==
    LET call == create_customer(script)
    IN  /\ remote' = GatewayApply(remote, call)
        /\ last' = HelperRan("create_customer", call)
        /\ UNCHANGED <<authVars, userSub, gwEvents, concVars, custVars, acctVars>>

StartCheckoutSession(customer_id, success_url, script) ==
    LET call == start_checkout_session(customer_id, script)
    IN  /\ remote' = GatewayApply(remote, call)
        /\ last' = Ran("start_checkout_session", NULL,
                       [customer_id |-> customer_id, success_url |-> success_url,
                        sent_success_url |-> session_success_url(success_url)],
                       IF call.raised THEN "raised" ELSE "returned", <<call>>)
        /\ UNCHANGED <<authVars, userSub, gwEvents, concVars, custVars, acctVars>>

GetCheckoutSession(session_id, script) ==
    LET call == get_checkout_session(session_id, script)
    IN  /\ remote' = GatewayApply(remote, call)
        /\ last' = HelperRan("get_checkout_session", call)
        /\ UNCHANGED <<authVars, userSub, gwEvents, concVars, custVars, acctVars>>

GetSubscription(stripe_id, script) ==
    LET call == get_subscription(stripe_id, script)
    IN  /\ remote' = GatewayApply(remote, call)
        /\ last' = HelperRan("get_subscription", call)
        /\ UNCHANGED <<authVars, userSub, gwEvents, concVars, custVars, acctVars>>

GetCustomerActiveSubscriptions(customer_stripe_id, script) ==
    LET call == get_customer_active_subscriptions(customer_stripe_id, script)
    IN  /\ remote' = GatewayApply(remote, call)
        /\ last' = HelperRan("get_customer_active_subscriptions", call)
        /\ UNCHANGED <<authVars, userSub, gwEvents, concVars, custVars, acctVars>>

CancelSubscription(stripe_id, cancel_at_period_end, script) ==
    LET call == cancel_subscription(stripe_id, cancel_at_period_end, script)
    IN  /\ remote' = GatewayApply(remote, call)
        /\ last' = HelperRan("cancel_subscription", call)
        /\ UNCHANGED <<authVars, userSub, gwEvents, concVars, custVars, acctVars>>

NextGateway ==
    \/ \E script \in Scripts : CreateCustomer(script)
    \/ \E cid \in GatewayCustomers \cup {"cus_unknown"},
          success_url \in SuccessUrls, script \in Scripts :
            StartCheckoutSession(cid, success_url, script)
    \/ \E sid \in SessionIds \cup {"cs_unknown"}, script \in Scripts :
            GetCheckoutSession(sid, script)
    \/ \E sub \in HelperSubIds, script \in Scripts : GetSubscription(sub, script)
    \/ \E cid \in GatewayCustomers \cup {"cus_unknown"}, script \in Scripts :
            GetCustomerActiveSubscriptions(cid, script)
    \/ \E sub \in HelperSubIds, cancel_at_period_end \in BOOLEAN,
          script \in Scripts :
            CancelSubscription(sub, cancel_at_period_end, script)

SpecGateway == Init /\ [][NextGateway]_vars

(***************************************************************************)
(* Two requests of one user at once: each statement that reads or writes    *)
(* the table or calls the gateway is a step of its own.  No handler takes   *)
(* a lock or opens a transaction around these statements.                   *)
(***************************************************************************)
\* the user both requests belong to
ConcUser == "u1"

\* the row of a user whose checkout of sub_a was finalized
BoundTable ==
    save(<<>>, ConcUser,
         setattrs(DefaultUserSubscription,
                  updated_sub_options("basic", "sub_a",
                        serialize_subscription_data(InitialSnapshot("sub_a")))))

InitConc ==
    /\ userSub \in {<<>>, BoundTable}
    /\ remote = [sub \in SubIds |-> InitialSnapshot(sub)]
    /\ gwEvents = 0
    /\ last = Ran("requests", ConcUser, userSub, "started", <<>>)
    /\ pc = [r \in Requests |-> "idle"]
    /\ loc = [r \in Requests |-> IdleLocals]
    /\ customers = [u \in Users |-> DefaultCustomer]
    /\ delivered = {}
    /\ EstablishedAccounts
    /\ NoLoginAttempts

\* request r moves to statement to with the local variables locals
Goto(r, to, locals) ==
    /\ pc' = [pc EXCEPT ![r] = to]
    /\ loc' = [loc EXCEPT ![r] = locals]

\* process_user_subscription_update, lines 314-323: get_or_create with the
\* new binding as defaults; a created row is final
FinalizeGetOrCreate(r, subscription_obj, sub_stripe_id, subscription_data, script) ==
    LET options == updated_sub_options(subscription_obj, sub_stripe_id,
                                       subscription_data)
        goc == get_or_create(userSub, ConcUser,
                             setattrs(DefaultUserSubscription, options))
        cancelling == cancels_old(goc.created, goc.row.stripe_id, sub_stripe_id)
        locals == [IdleLocals EXCEPT !.op = "finalize", !.plan = subscription_obj,
                        !.sub = sub_stripe_id, !.data = subscription_data,
                        !.script = script, !.row = goc.row,
                        !.created = goc.created, !.cancelling = cancelling]
    IN  /\ pc[r] = "idle"
        /\ userSub' = save(userSub, ConcUser, goc.row)
        /\ IF goc.created
           THEN Goto(r, "done", [locals EXCEPT !.outcome = "success"])
           ELSE Goto(r, IF cancelling THEN "cancel_old" ELSE "save", locals)
        /\ UNCHANGED <<authVars, remote, gwEvents, last, custVars, acctVars>>

\* lines 331-345: the old subscription is cancelled, its failure is logged
FinalizeCancelOld(r) ==
    LET l == loc[r]
        cancel == cancel_subscription(l.row.stripe_id, FALSE, l.script)
        locals == [l EXCEPT !.calls = <<cancel>>]
    IN  /\ pc[r] = "cancel_old"
        /\ remote' = GatewayApply(remote, cancel)
        /\ IF continue_despite_cancellation_failure(l.cancelling, cancel)
           THEN Goto(r, "save", locals)
           ELSE Goto(r, "done", [locals EXCEPT !.outcome = "error"])
        /\ UNCHANGED <<authVars, userSub, gwEvents, last, custVars, acctVars>>

\* lines 348-350: the new binding is set on the row object read at line 321
\* and the whole row is saved
FinalizeSave(r) ==
    LET l == loc[r]
        options == updated_sub_options(l.plan, l.sub, l.data)
    IN  /\ pc[r] = "save"
        /\ userSub' = save(userSub, ConcUser, setattrs(l.row, options))
        /\ Goto(r, "done", [l EXCEPT !.outcome = "success"])
        /\ UNCHANGED <<authVars, remote, gwEvents, last, custVars, acctVars>>

\* user_subscription_cancel_view POST, lines 88-95: get_or_create and the guard
CancelGetOrCreate(r, cancel_type, script) ==
    LET goc == get_or_create(userSub, ConcUser, DefaultUserSubscription)
        locals == [IdleLocals EXCEPT !.op = "cancel", !.cancel_type = cancel_type,
                        !.script = script, !.row = goc.row,
                        !.created = goc.created]
    IN  /\ pc[r] = "idle"
        /\ userSub' = save(userSub, ConcUser, goc.row)
        /\ IF goc.row.stripe_id # NULL /\ is_active_status(goc.row)
           THEN Goto(r, "cancel_call", locals)
           ELSE Goto(r, "done",
                     [locals EXCEPT !.outcome = "no_active_subscription"])
        /\ UNCHANGED <<authVars, remote, gwEvents, last, custVars, acctVars>>

\* lines 98-107: the gateway call; its exception ends the request
CancelCall(r) ==
    LET l == loc[r]
        cancel_at_period_end == ~cancel_immediately(posted_cancel_type(l.cancel_type))
        call == cancel_subscription(l.row.stripe_id, cancel_at_period_end, l.script)
        after == GatewayApply(remote, call)
        locals == [l EXCEPT !.calls = <<call>>]
    IN  /\ pc[r] = "cancel_call"
        /\ remote' = after
        /\ IF call.raised
           THEN Goto(r, "done", [locals EXCEPT !.outcome = "error"])
           ELSE Goto(r, "cancel_save",
                     [locals EXCEPT !.sub_data =
                          serialize_subscription_data(after[l.row.stripe_id])])
        /\ UNCHANGED <<authVars, userSub, gwEvents, last, custVars, acctVars>>

\* lines 110-113: the returned fields are set on the row object read at
\* line 88 and the whole row is saved
CancelSave(r) ==
    LET l == loc[r]
    IN  /\ pc[r] = "cancel_save"
        /\ userSub' = save(userSub, ConcUser, setattrs(l.row, l.sub_data))
        /\ Goto(r, "done", [l EXCEPT !.outcome = "cancelled"])
        /\ UNCHANGED <<authVars, remote, gwEvents, last, custVars, acctVars>>

NextConc ==
    \/ \E r \in Requests, script \in SteadyScripts :
          \E c \in OwnCheckouts(ConcUser) : \E data \in CheckoutData(c.sub) :
            FinalizeGetOrCreate(r, c.plan, c.sub, data, script)
    \/ \E r \in Requests : FinalizeCancelOld(r)
    \/ \E r \in Requests : FinalizeSave(r)
    \/ \E r \in Requests, cancel_type \in CancelTypes, script \in SteadyScripts :
            CancelGetOrCreate(r, cancel_type, script)
    \/ \E r \in Requests : CancelCall(r)
    \/ \E r \in Requests : CancelSave(r)

SpecConc == InitConc /\ [][NextConc]_vars

\* the lifetime values the Customer rows start the concurrent deliveries with
InitialLifetimeValues == {0, 300}

\* two webhook deliveries about to be handled by two workers
InitInvoices ==
    /\ userSub = <<>>
    /\ remote = [sub \in SubIds |-> InitialSnapshot(sub)]
    /\ gwEvents = 0
    /\ pc = [r \in Requests |-> "idle"]
    /\ loc = [r \in Requests |-> IdleLocals]
    /\ \E v \in InitialLifetimeValues :
        /\ customers = [u \in Users |-> [DefaultCustomer EXCEPT !.lifetime_value = v]]
        /\ last = Ran("requests", NULL,
                      [lifetime_value_before |-> [u \in Users |-> v]],
                      "started", <<>>)
    /\ delivered = {}
    /\ EstablishedAccounts
    /\ NoLoginAttempts

\* webhook_stripe and handle_subscription_webhook for an invoice event, up to
\* customer = Customer.objects.get(stripe_id=customer_id): the worker holds
\* its own copy of the row
InvoiceGet(r, event, csrf_token_valid) ==
    LET found == customers_of_stripe_id(event.customer)
        u == CHOOSE x \in found : TRUE
        l == [IdleLocals EXCEPT !.op = "webhook_stripe", !.data = event]
    IN  /\ pc[r] = "idle"
        /\ event_family(event) = "invoice."
        /\ delivered' = delivered \cup {event.id}
        /\ IF ~csrf_token_valid
           THEN Goto(r, "done", [l EXCEPT !.outcome = "forbidden_403"])
           ELSE IF event.customer # NULL /\ event.amount_paid > 0 /\ found # {}
           THEN Goto(r, "invoice_add", [l EXCEPT !.row = customers[u]])
           ELSE Goto(r, "done", [l EXCEPT !.outcome = "ignored"])
        /\ UNCHANGED <<authVars, userSub, remote, gwEvents, last, customers, acctVars>>

\* customer.lifetime_value += amount_paid and
\* customer.save(update_fields=["lifetime_value"]) on the worker's copy
InvoiceAddAndSave(r) ==
    LET l == loc[r]
        u == CHOOSE x \in customers_of_stripe_id(l.data.customer) : TRUE
        sum == add_amount_paid(l.row.lifetime_value, l.data.amount_paid)
    IN  /\ pc[r] = "invoice_add"
        /\ customers' = IF sum.raised # NULL THEN customers
                        ELSE [customers EXCEPT ![u].lifetime_value = sum.value]
        /\ Goto(r, "done", [l EXCEPT !.outcome = IF sum.raised # NULL
                                                 THEN "ignored" ELSE "success"])
        /\ UNCHANGED <<authVars, userSub, remote, gwEvents, last, delivered, acctVars>>

\* two workers, each handling one invoice webhook
NextInvoices ==
    \/ \E r \in Requests, id \in InvoiceEventIds, csrf_token_valid \in BOOLEAN :
            InvoiceGet(r, InvoiceEvent(id), csrf_token_valid)
    \/ \E r \in Requests : InvoiceAddAndSave(r)

SpecInvoices == InitInvoices /\ [][NextInvoices]_vars

(***************************************************************************)
(* Properties of checkout finalization.                                     *)
(***************************************************************************)
\* the calls of the last handler run that cancel at the gateway
CancelCalls(ran) ==
    {i \in DOMAIN ran.calls :
        ran.calls[i].api \in {"Subscription.cancel", "Subscription.modify"}}

\* the calls of the last handler run that read a subscription from the gateway
RetrieveCalls(ran) ==
    {i \in DOMAIN ran.calls : ran.calls[i].api = "Subscription.retrieve"}

\* the last handler run got an answer to every gateway call it made
AllCallsOk(ran) == \A i \in DOMAIN ran.calls : ~ran.calls[i].raised

\* the status and period fields of a row or a snapshot
SyncedFields(r) ==
    <<r.status, r.current_period_start, r.current_period_end,
      r.cancel_at_period_end>>

\* C1: process_user_subscription_update issues a gateway cancellation if and
\* only if the user already had a row whose remote id is non-empty and differs
\* from the new id; then it issues exactly one, for the old id; and the row is
\* bound to the new id afterwards.  A reload with the same id, or a user with
\* no row, issues none.
C1_CancelsOldIffRebound ==
    [][last'.op = "process_user_subscription_update" =>
        LET u == last'.user
            new == last'.input.sub_stripe_id
            rebound == /\ u \in DOMAIN userSub
                       /\ userSub[u].stripe_id # NULL
                       /\ userSub[u].stripe_id # new
            issued == CancelCalls(last')
        IN  /\ rebound <=> issued # {}
            /\ rebound =>
                /\ Cardinality(issued) = 1
                /\ \A i \in issued : last'.calls[i].target = userSub[u].stripe_id
            /\ userSub'[u].stripe_id = new]_vars

C1_Witness ==
    /\ last.op = "process_user_subscription_update"
    /\ Len(last.calls) = 1
    /\ last.calls[1].api = "Subscription.cancel"
    /\ last.calls[1].target # last.input.sub_stripe_id
    /\ userSub[last.user].stripe_id = last.input.sub_stripe_id

\* the session is complete and resolves to one customer and one plan
ValidSession(sid) ==
    /\ sid \in SessionIds
    /\ SessionCustomer(sid) # NULL
    /\ SessionSubscription(sid) # NULL
    /\ SubPrice(SessionSubscription(sid)) # NULL
    /\ Cardinality({u \in Users : CustomerStripeId[u] = SessionCustomer(sid)}) = 1
    /\ Cardinality(PlansOfPrice(SubPrice(SessionSubscription(sid)))) = 1

\* C2: for a completed checkout session with a customer id, a subscription id
\* and a price id, whose customer id is that of exactly one local customer and
\* whose price belongs to exactly one plan, checkout_finalize_view ends with
\* that user's row bound to the session's subscription and plan, with
\* user_cancelled false, and not in the error redirect.
C2_FinalizeBindsSession ==
    (/\ last.op = "checkout_finalize_view"
     /\ ValidSession(last.input)
     /\ AllCallsOk(last)) =>
        LET sub == SessionSubscription(last.input)
            u == CHOOSE x \in Users : CustomerStripeId[x] = SessionCustomer(last.input)
        IN  /\ last.outcome = "success"
            /\ u \in DOMAIN userSub
            /\ userSub[u].stripe_id = sub
            /\ {userSub[u].subscription} = PlansOfPrice(SubPrice(sub))
            /\ userSub[u].user_cancelled = FALSE

\* C3 as claimed: after the new id is written a reconciliation of the user is
\* invoked (the gateway is asked for the subscription), and the status and
\* period fields of the row are the gateway's, not the checkout data's.
C3_FinalizeReconciles ==
    last.op = "process_user_subscription_update" =>
        /\ RetrieveCalls(last) # {}
        /\ SyncedFields(userSub[last.user]) =
               SyncedFields(remote[last.input.sub_stripe_id])

\* C3 as amended: process_user_subscription_update invokes no reconciliation
\* (it never asks the gateway for the subscription); the status, period and
\* cancel_at_period_end fields of the row when it returns are the ones carried
\* in subscription_data, the snapshot get_checkout_customer_plan read before.
C3_FinalizeWritesCheckoutData ==
    last.op = "process_user_subscription_update" =>
        /\ RetrieveCalls(last) = {}
        /\ SyncedFields(userSub[last.user]) =
               SyncedFields(last.input.subscription_data)

C3_Witness ==
    /\ last.op = "process_user_subscription_update"
    /\ SyncedFields(last.input.subscription_data) #
           SyncedFields(remote[last.input.sub_stripe_id])
    /\ SyncedFields(userSub[last.user]) =
           SyncedFields(last.input.subscription_data)

\* C4: when checkout_finalize_view fails validation (no session id, checkout
\* data without customer, subscription or plan id, no or several plans for the
\* price, no local user for the customer id) no row is created or modified,
\* no cancellation is issued and the response is the error redirect.
C4_InvalidCheckoutChangesNothing ==
    [][(/\ last'.op = "checkout_finalize_view"
        /\ ~ValidSession(last'.input)) =>
            /\ userSub' = userSub
            /\ remote' = remote
            /\ CancelCalls(last') = {}
            /\ last'.outcome = "error"]_vars

C4_Witness ==
    /\ last.op = "checkout_finalize_view"
    /\ last.input = "cs_x"
    /\ AllCallsOk(last)
    /\ Len(last.calls) = 2
    /\ last.outcome = "error"

(***************************************************************************)
(* Properties of the row.                                                   *)
(***************************************************************************)
\* C6: after any sequence of lazy get-or-create, checkout finalization and
\* user cancellation, a row whose status is active, trialing or past_due has a
\* remote subscription id, and a row without one has status none or incomplete.
C6_StatusNeedsRemoteId ==
    \A u \in DOMAIN userSub :
        /\ userSub[u].status \in {"active", "trialing", "past_due"} =>
               userSub[u].stripe_id # NULL
        /\ userSub[u].stripe_id = NULL =>
               userSub[u].status \in {"none", "incomplete"}

C6_Witness ==
    /\ last.op = "user_subscription_cancel_view"
    /\ last.outcome = "cancelled"
    /\ userSub[last.user].status \in {"active", "trialing"}
    /\ \E u \in DOMAIN userSub : userSub[u].stripe_id = NULL

\* the step changes the fields of a row that existed
RowChanged == \E u \in DOMAIN userSub : userSub'[u] # userSub[u]

\* the step is a checkout finalization or a reconciliation
FinalizesOrReconciles(ran) ==
    \/ ran.op \in {"checkout_finalize_view", "process_user_subscription_update"}
    \/ ran.op = "user_subscription_view" /\ ran.input = "refresh"

\* C7 as claimed: the fields of a row change only by a reconciliation or a
\* checkout finalization; every other handler, the cancellation view
\* included, leaves them unchanged.
C7_OnlyReconcileOrFinalizeWrites ==
    [][RowChanged => FinalizesOrReconciles(last')]_vars

\* C7 as amended: the fields of a row change only by a reconciliation, a
\* checkout finalization, or a user cancellation the gateway accepted (the
\* cancellation view writes the status, period and cancel_at_period_end the
\* gateway returns); every other handler leaves them unchanged.
C7_OnlyReconcileFinalizeOrCancelWrites ==
    [][RowChanged =>
        \/ FinalizesOrReconciles(last')
        \/ /\ last'.op = "user_subscription_cancel_view"
           /\ last'.outcome = "cancelled"]_vars

C7_Witness ==
    /\ last.op = "user_subscription_cancel_view"
    /\ last.outcome = "cancelled"
    /\ userSub[last.user].cancel_at_period_end = TRUE
    /\ userSub[last.user].status # "canceled"

\* C10: cancel_subscription terminates the subscription at once when asked
\* for an immediate cancellation and otherwise only sets cancel-at-period-end;
\* the cancellation view asks for the immediate one only when cancel_type is
\* exactly "immediate", and makes exactly one gateway call per accepted request.
C10_CancelTiming ==
    [][(/\ last'.op = "user_subscription_cancel_view"
        /\ last'.input \in CancelTypes
        /\ last'.outcome # "no_active_subscription") =>
            LET id == userSub[last'.user].stripe_id
                call == last'.calls[1]
            IN  /\ Len(last'.calls) = 1
                /\ call.target = id
                /\ IF last'.input = "immediate"
                   THEN /\ call.api = "Subscription.cancel"
                        /\ ~call.raised => remote'[id].status = "canceled"
                   ELSE /\ call.api = "Subscription.modify"
                        /\ ~call.raised =>
                            /\ remote'[id].cancel_at_period_end
                            /\ remote'[id].status = remote[id].status]_vars

C10_Witness ==
    /\ last.op = "user_subscription_cancel_view"
    /\ last.input = "tomorrow"
    /\ last.outcome = "cancelled"
    /\ remote[userSub[last.user].stripe_id].cancel_at_period_end
    /\ remote[userSub[last.user].stripe_id].status # "canceled"


(***************************************************************************)
(* Properties of the gateway helpers.                                       *)
(***************************************************************************)
\* C9: every gateway helper (get checkout session, get subscription, list
\* active subscriptions, cancel subscription, create customer, start checkout
\* session) retries a transient failure at most 2 times (3 attempts at most),
\* never makes another attempt after a 4xx answer, and raises the gateway's
\* error when its last attempt failed.
C9_BoundedRetry ==
    \A i \in DOMAIN last.calls :
        LET call == last.calls[i]
        IN  /\ call.attempts <= 3
            /\ \A j \in 1..(call.attempts - 1) : call.answers[j] # "client_error"
            /\ call.answers[call.attempts] # "ok" => call.raised

C9_Witness ==
    /\ last.op = "cancel_subscription"
    /\ Len(last.calls) = 1
    /\ last.calls[1].answers[1] = "transient"
    /\ last.calls[1].answers[ScriptLen] = "ok"
    /\ last.calls[1].raised


(***************************************************************************)
(* Properties of concurrent requests of one user.                           *)
(***************************************************************************)
\* the request as one uninterrupted run, from a table and a gateway
RunAlone(state, l) ==
    LET done == IF l.op = "finalize"
                THEN process_user_subscription_update(state.table, state.gw,
                        ConcUser, l.plan, l.sub, l.data, l.script)
                ELSE cancel_view_post(state.table, state.gw, ConcUser,
                                      l.cancel_type, l.script)
    IN  [table |-> done.table, gw |-> done.gw]

\* what the two requests leave when one runs after the other, in either order
SerialOutcomes ==
    LET start == [table |-> last.input,
                  gw |-> [sub \in SubIds |-> InitialSnapshot(sub)]]
    IN  {RunAlone(RunAlone(start, loc[o[1]]), loc[o[2]]) :
            o \in {<<"r1", "r2">>, <<"r2", "r1">>}}

\* C5: in a finalization for a user bound to a different remote subscription
\* the cancellation of the old subscription is attempted before the new
\* binding is written, the cancelling step writes nothing, and the
\* finalization ends by writing the new binding and reporting success, also
\* when the cancellation raised.
C5_CancelBeforeBindBestEffort ==
    [][\A r \in Requests :
        (loc'[r].op = "finalize" /\ loc'[r].cancelling) =>
            /\ (pc[r] = "cancel_old" /\ pc'[r] # "cancel_old") =>
                    /\ Len(loc'[r].calls) = 1
                    /\ loc'[r].calls[1].target = loc[r].row.stripe_id
                    /\ userSub' = userSub
            /\ (pc[r] # "done" /\ pc'[r] = "done") =>
                    /\ pc[r] = "save"
                    /\ Len(loc[r].calls) = 1
                    /\ userSub'[ConcUser].stripe_id = loc[r].sub
                    /\ userSub'[ConcUser].subscription = loc[r].plan
                    /\ loc'[r].outcome = "success"]_vars

C5_Witness ==
    \E r \in Requests :
        /\ pc[r] = "done"
        /\ loc[r].op = "finalize"
        /\ loc[r].cancelling
        /\ Len(loc[r].calls) = 1
        /\ loc[r].calls[1].raised
        /\ loc[r].outcome = "success"
        /\ userSub[ConcUser].stripe_id = loc[r].sub

\* C8: when the two requests of one user have ended, the table and the
\* gateway are what running the two requests one after the other, in some
\* order, leaves: their read-modify-write steps did not interleave.
C8_Serializable ==
    (\A r \in Requests : pc[r] = "done") =>
        [table |-> userSub, gw |-> remote] \in SerialOutcomes


(***************************************************************************)
(* Properties of the checkout start.                                        *)
(***************************************************************************)
\* C12: when the user has selected a price on sale that has a gateway price
\* id, their customer has a gateway customer id and the gateway accepts the
\* request, checkout_redirect_view starts a checkout session and redirects to
\* the gateway's checkout URL, whether or not the user has a row in
\* UserSubscription.
C12_RedirectsToCheckoutUrl ==
    (/\ last.op = "checkout_redirect_view"
     /\ last.input.price_id \in {"price_basic", "price_pro"}
     /\ last.input.stripe_id \in GatewayCustomers
     /\ last.input.gateway = "ok") =>
        /\ last.outcome = "redirect_checkout_url"
        /\ Len(last.calls) = 1
        /\ last.calls[1].api = "checkout.Session.create"

(***************************************************************************)
(* Properties of the checkout session start.                                *)
(***************************************************************************)
\* the number of times a URL carries the session-id placeholder
PlaceholderCount(url) ==
    Cardinality({i \in DOMAIN url : url[i] = SessionIdParam})

\* C11: the success URL start_checkout_session sends to the gateway carries
\* the session-id placeholder exactly once: it is the given URL when that
\* carries the placeholder, the given URL with the placeholder appended when
\* it does not, and applying the rule to it again changes nothing.
C11_PlaceholderExactlyOnce ==
    last.op = "start_checkout_session" =>
        LET given == last.input.success_url
            sent == last.input.sent_success_url
        IN  /\ PlaceholderCount(sent) = 1
            /\ PlaceholderCount(given) = 0 => sent = given \o SessionIdSuffix
            /\ PlaceholderCount(given) = 1 => sent = given
            /\ session_success_url(sent) = sent


(***************************************************************************)
(* Properties of the sync_user_subs command.                                *)
(***************************************************************************)
\* the date filters that reach the batch with a positive value
ActiveFilters(kwargs) ==
    {f \in {"days_left", "days_ago"} : kwargs[f] > 0}
        \cup (IF kwargs.day_start > 0 /\ kwargs.day_end > 0 THEN {"window"} ELSE {})

\* C13: one invocation of sync_user_subs makes exactly one call: with
\* --clear-dangling it is clear_dangling_subs, whatever filter flags are
\* given, and without it it is refresh_active_users_subscriptions.
C13_ExactlyOneMode ==
    last.op = "sync_user_subs" =>
        /\ Len(last.calls) = 1
        /\ last.input.clear_dangling =>
                last.calls[1].api = "clear_dangling_subs"
        /\ ~last.input.clear_dangling =>
                last.calls[1].api = "refresh_active_users_subscriptions"

C13_Witness ==
    /\ last.op = "sync_user_subs"
    /\ last.input.clear_dangling
    /\ last.input.days_left > 0
    /\ last.calls[1].api = "clear_dangling_subs"

\* C14: sync_user_subs ends with a failure exactly when the function it called
\* raised; when the batch returns False (some users not updated) it ends
\* normally with a warning, and when it returns True, or the sweep returns,
\* it ends normally with the success message.
C14_ExitCode ==
    last.op = "sync_user_subs" =>
        LET call == last.calls[1]
        IN  /\ last.outcome = "exit_nonzero" <=> call.raised
            /\ (~call.raised /\ ~call.done) => last.outcome = "exit_0_warning"
            /\ (~call.raised /\ call.done) => last.outcome = "exit_0_success"

C14_Witness ==
    /\ last.op = "sync_user_subs"
    /\ last.calls[1].api = "refresh_active_users_subscriptions"
    /\ ~last.calls[1].raised
    /\ ~last.calls[1].done
    /\ last.outcome = "exit_0_warning"

\* C15: in sync mode at most one of the three date filters (days_left,
\* days_ago, the day_start/day_end window) reaches the batch with a positive
\* value, and with no filter flag given every one reaches it as -1 with
\* active_only set.
C15_AtMostOneDateFilter ==
    (last.op = "sync_user_subs" /\ ~last.input.clear_dangling) =>
        LET kwargs == last.calls[1].kwargs
        IN  /\ Cardinality(ActiveFilters(kwargs)) <= 1
            /\ (/\ last.input.days_left = 0 /\ last.input.days_ago = 0
                /\ last.input.day_start = 0 /\ last.input.day_end = 0) =>
                    /\ kwargs.active_only
                    /\ ActiveFilters(kwargs) = {}
                    /\ kwargs.days_left = -1 /\ kwargs.days_ago = -1
                    /\ kwargs.day_start = -1 /\ kwargs.day_end = -1


(***************************************************************************)
(* Properties of the webhooks and of the customer's subscription status.    *)
(***************************************************************************)
\* the last handler run was a webhook delivery that passed the CSRF check,
\* for an event of the given family that names a local customer
HandledWebhook(ran, family) ==
    /\ ran.op = "webhook_stripe"
    /\ ran.input.csrf_token_valid
    /\ event_family(ran.input.event) = family
    /\ customers_of_stripe_id(ran.input.event.customer) # {}

\* C16: after a customer.subscription.* webhook event for a local customer is
\* handled, the handler has read that user's bound subscription from the
\* gateway, the user's row equals the gateway's snapshot, and the customer's
\* status is the gateway's, not whatever the payload carried.
C16_WebhookReconciles ==
    HandledWebhook(last, "customer.subscription.") =>
        \A u \in customers_of_stripe_id(last.input.event.customer) :
            (u \in DOMAIN userSub /\ userSub[u].stripe_id # NULL) =>
                /\ \E i \in RetrieveCalls(last) :
                        last.calls[i].target = userSub[u].stripe_id
                /\ SyncedFields(userSub[u]) =
                        SyncedFields(remote[userSub[u].stripe_id])
                /\ customers[u].subscription_status \in
                        {"none", remote[userSub[u].stripe_id].status}

\* C17: handling an invoice event with amount_paid > 0 for a local customer
\* adds amount_paid to that customer's lifetime value when the event id is
\* delivered for the first time, and leaves the lifetime value as it is when
\* the event id was delivered before.
C17_InvoiceCountedOnce ==
    (HandledWebhook(last, "invoice.") /\ last.input.event.amount_paid > 0) =>
        \A u \in customers_of_stripe_id(last.input.event.customer) :
            customers[u].lifetime_value =
                last.input.lifetime_value_before[u]
                    + (IF last.input.delivered_before THEN 0
                       ELSE last.input.event.amount_paid)

\* C18: Customer.subscription_status becomes paused only from active, and
\* changes from paused to active only by the resume action of that user.
C18_PausedOnlyFromActive ==
    [][\A u \in Users :
        LET old == customers[u].subscription_status
            new == customers'[u].subscription_status
        IN  /\ (new = "paused" /\ old # "paused") => old = "active"
            /\ (old = "paused" /\ new = "active") =>
                    /\ last'.op = "subscription_management"
                    /\ last'.user = u
                    /\ last'.input = "resume_subscription"]_vars

\* C19: once Customer.subscription_status is canceled it changes to another
\* status only in a checkout finalization of that user, which binds the
\* user's row to a remote subscription id.
C19_CanceledIsTerminal ==
    [][\A u \in Users :
        (/\ customers[u].subscription_status = "canceled"
         /\ customers'[u].subscription_status # "canceled") =>
            /\ last'.op = "process_user_subscription_update"
            /\ last'.user = u
            /\ userSub'[u].stripe_id = last'.input.sub_stripe_id]_vars


(***************************************************************************)
(* Properties of the reconciliation of one user.                            *)
(***************************************************************************)
\* C20: refreshing a user whose row references a remote subscription id reads
\* that subscription from the gateway in one call; when the gateway answers
\* not-found (4xx) to its single attempt, the row's remote id is cleared, its
\* status is canceled with user_cancelled false, the outcome is
\* orphan_cancelled, and nothing is changed at the gateway.
C20_DanglingReferenceCleared ==
    [][\A u \in DOMAIN userSub :
        (/\ last'.op = "user_subscription_view"
         /\ last'.input = "refresh"
         /\ last'.user = u
         /\ userSub[u].stripe_id # NULL) =>
            /\ Len(last'.calls) = 1
            /\ last'.calls[1].api = "Subscription.retrieve"
            /\ last'.calls[1].target = userSub[u].stripe_id
            /\ last'.calls[1].result = "client_error" =>
                    /\ last'.calls[1].attempts = 1
                    /\ userSub'[u].stripe_id = NULL
                    /\ userSub'[u].status = "canceled"
                    /\ userSub'[u].user_cancelled = FALSE
                    /\ last'.outcome = "orphan_cancelled"
                    /\ remote' = remote]_vars

C20_Witness ==
    /\ last.op = "user_subscription_view"
    /\ last.input = "refresh"
    /\ last.outcome = "orphan_cancelled"
    /\ Len(last.calls) = 1
    /\ last.calls[1].result = "client_error"
    /\ last.calls[1].target \in SubIds
    /\ userSub[last.user].stripe_id = NULL
    /\ userSub[last.user].status = "canceled"

\* the last handler run was a refresh of the row of u that did not end in error
Refreshed(ran, u) ==
    /\ ran.op = "user_subscription_view"
    /\ ran.input = "refresh"
    /\ ran.user = u
    /\ ran.outcome # "error"

\* the gateway answers the second of two runs as it answered the first
SameAnswers(first, second) ==
    \A i \in DOMAIN second.calls :
        /\ i \in DOMAIN first.calls
        /\ second.calls[i].answers = first.calls[i].answers

\* C21: when the row of a user is refreshed twice in succession, nothing
\* changing at the gateway between the two (its subscriptions are the same and
\* it answers the second read as it answered the first), and the refresh does
\* not end in error, the second reports unchanged and leaves every field of
\* the row as the first left it.
C21_ReconcileIdempotent ==
    [][\A u \in DOMAIN userSub :
        (Refreshed(last, u) /\ Refreshed(last', u) /\ SameAnswers(last, last')) =>
            /\ last'.outcome = "unchanged"
            /\ userSub'[u] = userSub[u]
            /\ remote' = remote]_vars

\* a refresh that found the row equal to a snapshot the gateway had renewed:
\* an earlier run had brought the renewed period into the row
C21_Witness ==
    /\ last.op = "user_subscription_view"
    /\ last.input = "refresh"
    /\ last.outcome = "unchanged"
    /\ Len(last.calls) = 1
    /\ ~last.calls[1].raised
    /\ gwEvents = 1
    /\ userSub[last.user].stripe_id = last.calls[1].target
    /\ userSub[last.user].current_period_end = 2
    /\ SyncedFields(userSub[last.user]) = SyncedFields(remote[last.calls[1].target])

(***************************************************************************)
(* Properties of the batch.                                                 *)
(***************************************************************************)
\* C22: when sync_user_subs runs the batch and the candidates can be loaded,
\* the batch call raises nothing and the command does not fail; the results
\* hold one entry for every row the filters select and for no other; each
\* selected user's row and result are the ones reconciling that user alone
\* gives; a user whose gateway read fails transiently has the result error
\* and its row untouched; the rows not selected and the gateway are untouched.
C22_BatchFailureIsolation ==
    [][(/\ last'.op = "sync_user_subs"
        /\ last'.calls[1].api = "refresh_active_users_subscriptions"
        /\ last'.calls[1].loaded) =>
            LET call == last'.calls[1]
                selected == {u \in DOMAIN userSub :
                    selected_by_filters(userSub[u], call.kwargs, call.today)}
            IN  /\ ~call.raised
                /\ last'.outcome # "exit_nonzero"
                /\ DOMAIN call.results = selected
                /\ \A u \in selected :
                      LET alone == reconcile(userSub[u], remote, call.scripts[u])
                      IN  /\ call.results[u] = alone.outcome
                          /\ userSub'[u] = alone.row
                          /\ call.scripts[u][1] = "transient" =>
                                /\ call.results[u] = "error"
                                /\ userSub'[u] = userSub[u]
                /\ \A u \in DOMAIN userSub \ selected : userSub'[u] = userSub[u]
                /\ DOMAIN userSub' = DOMAIN userSub
                /\ remote' = remote]_vars

\* a batch over two users: the read for u1 failed, and the row of u2 was
\* written all the same (its remote subscription was gone)
C22_Witness ==
    /\ last.op = "sync_user_subs"
    /\ last.calls[1].api = "refresh_active_users_subscriptions"
    /\ ~last.calls[1].raised
    /\ DOMAIN last.calls[1].results = {"u1", "u2"}
    /\ last.calls[1].results["u1"] = "error"
    /\ last.calls[1].results["u2"] = "orphan_cancelled"
    /\ last.outcome = "exit_0_warning"
    /\ userSub["u1"].stripe_id # NULL
    /\ userSub["u2"].stripe_id = NULL
    /\ userSub["u2"].status = "canceled"

(***************************************************************************)
(* Properties of the cancellation view.                                     *)
(***************************************************************************)
\* C23: a POST to the cancellation view for a row without a remote id, or
\* whose status is not an active one, makes no gateway call and leaves the
\* row (the default row, when the user had none) and the gateway as they
\* were; a POST whose gateway call raises leaves every field of the row as it
\* was before the request.
C23_CancelLeavesRowOnNoOpOrError ==
    [][\A u \in Users :
        (/\ last'.op = "user_subscription_cancel_view"
         /\ last'.input \in CancelTypes
         /\ last'.user = u) =>
            LET before == get_or_create(userSub, u, DefaultUserSubscription).row
            IN  /\ (before.stripe_id = NULL \/ ~is_active_status(before)) =>
                        /\ last'.calls = <<>>
                        /\ last'.outcome = "no_active_subscription"
                        /\ userSub'[u] = before
                        /\ remote' = remote
                /\ (last'.calls # <<>> /\ last'.calls[1].raised) =>
                        /\ last'.outcome = "error"
                        /\ userSub'[u] = before
                        /\ remote' = remote]_vars

\* a cancellation the gateway failed: the row is still bound and active
C23_Witness ==
    /\ last.op = "user_subscription_cancel_view"
    /\ last.input = "immediate"
    /\ last.outcome = "error"
    /\ Len(last.calls) = 1
    /\ last.calls[1].result = "transient"
    /\ userSub[last.user].stripe_id = last.calls[1].target
    /\ is_active_status(userSub[last.user])
    /\ ~userSub[last.user].user_cancelled
    /\ remote[last.calls[1].target].status # "canceled"

\* C24: the subscription_status of every Customer row is one of the declared
\* choices (none, trial, active, past_due, canceled, paused), whatever
\* webhooks were delivered and whatever the customer did.
C24_StatusWithinChoices ==
    \A u \in Users : customers[u].subscription_status \in CustomerStatuses

(***************************************************************************)
(* Properties of the Customer row and its gateway customer.                 *)
(***************************************************************************)
\* the handler that just ran asked the gateway to create a customer
AskedToCreateCustomer(ran) ==
    \E i \in DOMAIN ran.calls : ran.calls[i].api = "Customer.create"

\* C25: a handler asks the gateway to create a customer for a user only when
\* the Customer row of that user has init_email_confirmed true.
C25_NoGatewayCustomerBeforeConfirmation ==
    [][AskedToCreateCustomer(last') =>
            /\ last'.user \in DOMAIN profiles'
            /\ profiles'[last'.user].init_email_confirmed]_vars

\* checkout_redirect_view got as far as the call of start_checkout_session
ReachedCheckoutStart(ran) ==
    /\ ran.op = "checkout_redirect_view"
    /\ \/ ran.input.message = "unable_to_start_checkout"
       \/ \E i \in DOMAIN ran.calls : ran.calls[i].api = "checkout.Session.create"

\* C27: checkout_redirect_view reaches the start of a checkout session only
\* with a stored price that is on sale and has a gateway price id, and with a
\* customer that has a gateway customer id (stored, or created in this
\* request); when the stored price is no longer on sale the view leaves the
\* session without the checkout keys.
C27_CheckoutStartGuards ==
    [][/\ ReachedCheckoutStart(last') =>
            /\ last'.input.price_id \in onSale
            /\ price_stripe_id(last'.input.price_id) # NULL
            /\ \/ last'.input.stripe_id # NULL
               \/ CustomersCreated(last'.calls) = 1
       /\ (/\ last'.op = "checkout_redirect_view"
           /\ last'.input.price_id # NULL
           /\ last'.input.price_id \notin onSale) =>
            /\ session'[last'.user] = NULL
            /\ last'.calls = <<>>]_vars

\* a checkout start met a price withdrawn after it was selected
C27_Witness ==
    /\ last.op = "checkout_redirect_view"
    /\ last.input.price_id = "price_gone"
    /\ last.input.message = "plan_no_longer_available"
    /\ session[last.user] = NULL

\* C28: once the Customer row of a user holds a gateway customer id, no
\* handler changes that id and none asks the gateway to create another
\* customer for the user.
C28_StripeIdWriteOnce ==
    [][\A u \in DOMAIN profiles :
            profiles[u].stripe_id # NULL =>
                /\ u \in DOMAIN profiles'
                /\ profiles'[u].stripe_id = profiles[u].stripe_id
                /\ gwCreated'[u] = gwCreated[u]
                /\ (last'.user = u => ~AskedToCreateCustomer(last'))]_vars

\* create_customer_from_checkout came with the customer id of a checkout for
\* a user whose row already held another id
C28_Witness ==
    /\ last.op = "create_customer_from_checkout"
    /\ last.input = "cus_checkout"
    /\ last.outcome = "updated"
    /\ profiles[last.user].stripe_id = "cus_1"

\* C29: when a checkout start created a gateway customer for a user whose
\* Customer row held no gateway customer id, the row holds the id afterwards.
C29_CreatedIdIsStored ==
    (/\ last.op = "checkout_redirect_view"
     /\ last.input.stripe_id = NULL
     /\ CustomersCreated(last.calls) = 1) =>
        /\ last.user \in DOMAIN profiles
        /\ profiles[last.user].stripe_id # NULL

(***************************************************************************)
(* Properties of concurrent invoice webhooks.                               *)
(***************************************************************************)
\* worker r has finished an invoice event with a positive amount that came
\* with a valid token for a customer that has a row
CountedInvoice(r) ==
    /\ pc[r] = "done"
    /\ loc[r].op = "webhook_stripe"
    /\ loc[r].outcome # "forbidden_403"
    /\ loc[r].data.amount_paid > 0
    /\ customers_of_stripe_id(loc[r].data.customer) # {}

\* C30: when two workers have handled two distinct invoice events with
\* positive amounts for the same customer, the customer's lifetime value is
\* what it was before plus both amounts.
C30_BothInvoicesCounted ==
    \A r, q \in Requests :
        (/\ r # q
         /\ CountedInvoice(r)
         /\ CountedInvoice(q)
         /\ loc[r].data.id # loc[q].data.id
         /\ loc[r].data.customer = loc[q].data.customer) =>
            \A u \in customers_of_stripe_id(loc[r].data.customer) :
                customers[u].lifetime_value =
                    last.input.lifetime_value_before[u]
                        + loc[r].data.amount_paid + loc[q].data.amount_paid

(***************************************************************************)
(* Properties of the login view.                                            *)
(***************************************************************************)
\* the login POST carried an email and a password
WellFormedLogin(ran) ==
    /\ ran.op = "login_view"
    /\ ran.input.credentials \notin {"missing", "malformed_email"}

\* C26: a well-formed login POST from an address that has max_attempts or
\* more failed attempts within the last window_minutes is rejected without
\* authenticate being called, no successful login is recorded, and the
\* rejected attempt adds one failed attempt of that address.
C26_LoginRateLimited ==
    [][(/\ WellFormedLogin(last')
        /\ failed_attempts(loginAttempts, last'.input.ip_address,
                           now - window_minutes) >= max_attempts) =>
            /\ last'.outcome = "too_many_attempts"
            /\ last'.calls = <<>>
            /\ \A row \in LoginAttemptRows :
                    row.success => loginAttempts'[row] = loginAttempts[row]
            /\ failed_attempts(loginAttempts', last'.input.ip_address,
                               now - window_minutes)
                    = failed_attempts(loginAttempts, last'.input.ip_address,
                                      now - window_minutes) + 1]_vars

\* the right password came from an address that was blocked
C26_Witness ==
    /\ last.op = "login_view"
    /\ last.input.credentials = "valid"
    /\ last.outcome = "too_many_attempts"
    /\ failed_attempts(loginAttempts, last.input.ip_address,
                       now - window_minutes) > max_attempts

====
